---- MODULE Spec2Model ----
(***************************************************************************)
(* A model of juno-core's signal modifiers (MidTrend, Persistence,         *)
(* Changed, combine), the Sig / SigOsc strategy wrappers, the basic and    *)
(* the trailing stop-loss, the chromosomes and the generation loop of the  *)
(* genetic optimizer, the backtest and optimize routes, the moving-average *)
(* tags, the Alma moving average and the multiple-rounding functions.      *)
(* The older MidTrend and Changed run beside the newer ones, the basic     *)
(* stop-loss beside the trailing one.  Every object is a record of         *)
(* its struct fields; every method is an operator from (self, arguments)   *)
(* to the new self and the returned value; every action is one call on the *)
(* object under test, or one step of evolve.                               *)
(***************************************************************************)
EXTENDS Integers, Sequences, FiniteSets, TLC

VARIABLES
    under_test,     \* which object the behaviour exercises
    inputs,         \* the values passed to update so far, in call order
    outputs,        \* the values those calls returned
    old_outputs,    \* the values the older MidTrend returned for the same calls
    comb,           \* the last combine call: its arguments and its result
    persistence,    \* a Persistence
    mid_trend,      \* a MidTrend (src/strategies)
    old_mid_trend,  \* a MidTrend (strategies, the older boolean-flag version)
    changed,        \* a Changed
    old_changed,    \* the older Changed, given the same calls
    params,         \* the parameters the strategy was constructed from
    strategy,       \* a Sig or a SigOsc
    updates,        \* the update calls the strategy received since construction
    filtered,       \* the last call of SigOsc's oscillator filter
    basic,          \* a BasicStopLoss
    trailing,       \* a TrailingStopLoss, given the same calls as basic
    stop_loss_calls,\* what clear and update were called with, and the hits seen
    ctype,          \* the type of the chromosome under test
    chrom,          \* a chromosome
    partner,        \* a second chromosome of the same type, the parent of cross
    original,       \* the two chromosomes before any call
    chrom_call,     \* the last len, cross or mutate call
    crossed,        \* the gene indices cross was called with
    evolution,      \* an optimize request and the generations evolved for it
    response,       \* the optimize response
    math_call,      \* the last floor_multiple or ceil_multiple call
    ma_call,        \* the last mamacx, ma_to_str or str_to_ma call
    backtesting,    \* a backtest request, the stores it reads and its outcome
    ga,             \* an evolve call of the GeneticAlgorithm: its position and locals
    alma,           \* an Alma
    alma_fed        \* the prices it was updated with, oldest first

\* the signal modifiers and their call history
modifierVars == <<inputs, outputs, old_outputs, comb, persistence,
                  mid_trend, old_mid_trend, changed, old_changed>>
\* the composite strategy
strategyVars == <<params, strategy, updates, filtered>>

\* the stop-loss
stopLossVars == <<basic, trailing, stop_loss_calls>>

\* the chromosomes
geneticsVars == <<ctype, chrom, partner, original, chrom_call, crossed>>

\* the optimize route
optimizeVars == <<evolution, response>>

\* math.rs
mathVars == <<math_call>>

\* the moving-average tags
maVars == <<ma_call>>

\* the backtest route
backtestVars == <<backtesting>>

\* the genetic algorithm
evolveVars == <<ga>>

\* the Arnaud Legoux moving average
almaVars == <<alma, alma_fed>>

vars == <<under_test, modifierVars, strategyVars, stopLossVars, geneticsVars,
          optimizeVars, mathVars, maVars, backtestVars, evolveVars, almaVars>>

-----------------------------------------------------------------------------
(* Bounds of the model. *)

\* the longest call sequence given to a Persistence
MaxCalls == 7
\* the longest call sequence given to a MidTrend or a Changed
MaxFilterCalls == 5
\* the largest persistence level
MaxLevel == 2
\* the largest maturity of a constituent signal or oscillator
MaxMaturity == 2
\* the most update calls given to a strategy between two constructions
MaxUpdates == 5
\* the most update calls given to a stop-loss between two clear calls
MaxStopLossUpdates == 4
\* the largest raw value the random number generator yields
MaxDraw == 3
\* the largest hall of fame and hall_of_fame_size
MaxHallOfFame == 2
\* the most generations of one evolution
MaxGenerations == 3
\* the largest value and the largest multiple given to the math functions
MaxValue == 12
MaxMultiple == 6
\* the largest period of a moving average
MaxPeriod == 2
\* the largest period of an Alma and the most updates given to one
MaxAlmaPeriod == 3
MaxAlmaUpdates == 5
\* the most symbols of a backtest request
MaxSymbols == 2
\* the largest population size
MaxPopulation == 4

-----------------------------------------------------------------------------
(* common.rs *)

Advice == {"None", "Long", "Short", "Liquidate"}

(* strategies/mod.rs *)

MidTrendPolicy == {"Current", "Previous", "Ignore"}

\* Option<Advice>: NoPrevious is Option::None, [some |-> a] is Some(a).
NoPrevious == [none |-> TRUE]
Some(a) == [some |-> a]

MidTrend_new(policy) ==
    [policy |-> policy, previous |-> NoPrevious, enabled |-> TRUE]

MidTrend_maturity(self) ==
    IF self.policy = "Current" THEN 0 ELSE 1

\* MidTrend_update with the early return taken for Current only, so that
\* Previous is gated like Ignore.
MidTrend_update_GatesPrevious(self, value) ==
    IF ~self.enabled \/ self.policy = "Current"
    THEN [self |-> self, result |-> value]
    ELSE IF self.previous = NoPrevious
         THEN [self |-> [self EXCEPT !.previous = Some(value)], result |-> "None"]
         ELSE IF Some(value) # self.previous
              THEN [self |-> [self EXCEPT !.enabled = FALSE], result |-> value]
              ELSE [self |-> self, result |-> "None"]

\* MidTrend_update without the assignment enabled = false.
MidTrend_update_StaysEnabled(self, value) ==
    IF ~self.enabled \/ self.policy # "Ignore"
    THEN [self |-> self, result |-> value]
    ELSE IF self.previous = NoPrevious
         THEN [self |-> [self EXCEPT !.previous = Some(value)], result |-> "None"]
         ELSE IF Some(value) # self.previous
              THEN [self |-> self, result |-> value]
              ELSE [self |-> self, result |-> "None"]

\* MidTrend_update not counting a None input as the first value.
MidTrend_update_SkipsNone(self, value) ==
    IF ~self.enabled \/ self.policy # "Ignore"
    THEN [self |-> self, result |-> value]
    ELSE IF self.previous = NoPrevious
         THEN IF value = "None"
              THEN [self |-> self, result |-> "None"]
              ELSE [self |-> [self EXCEPT !.previous = Some(value)], result |-> "None"]
         ELSE IF Some(value) # self.previous
              THEN [self |-> [self EXCEPT !.enabled = FALSE], result |-> value]
              ELSE [self |-> self, result |-> "None"]

MidTrend_update(self, value) ==
    IF ~self.enabled \/ self.policy # "Ignore"
    THEN [self |-> self, result |-> value]
    ELSE IF self.previous = NoPrevious
         THEN [self |-> [self EXCEPT !.previous = Some(value)], result |-> "None"]
         ELSE IF Some(value) # self.previous
              THEN [self |-> [self EXCEPT !.enabled = FALSE], result |-> value]
              ELSE [self |-> self, result |-> "None"]

\* The older MidTrend: a boolean ignore flag instead of a policy.
OldMidTrend_new(ignore) ==
    [ignore |-> ignore, previous |-> NoPrevious,
     maturity |-> IF ignore THEN 1 ELSE 0]

\* OldMidTrend_update that keeps ignoring after the first change.
OldMidTrend_update_KeepsIgnoring(self, value) ==
    IF ~self.ignore
    THEN [self |-> self, result |-> value]
    ELSE IF self.previous = NoPrevious
         THEN [self |-> [self EXCEPT !.previous = Some(value)], result |-> "None"]
         ELSE IF Some(value) # self.previous
              THEN [self |-> self, result |-> value]
              ELSE [self |-> self, result |-> "None"]

OldMidTrend_update(self, value) ==
    IF ~self.ignore
    THEN [self |-> self, result |-> value]
    ELSE IF self.previous = NoPrevious
         THEN [self |-> [self EXCEPT !.previous = Some(value)], result |-> "None"]
         ELSE IF Some(value) # self.previous
              THEN [self |-> [self EXCEPT !.ignore = FALSE], result |-> value]
              ELSE [self |-> self, result |-> "None"]

Min(a, b) == IF a <= b THEN a ELSE b
Max(a, b) == IF a >= b THEN a ELSE b

Persistence_new(level, return_previous) ==
    [age |-> 0, level |-> level, return_previous |-> return_previous,
     potential |-> "None", previous |-> "None"]

Persistence_maturity(self) == self.level

\* Persistence_update without the reset age = 0 when the value changes.
Persistence_update_NoAgeReset(self, value) ==
    IF self.level = 0
    THEN [self |-> self, result |-> value]
    ELSE LET s1 == IF value # self.potential
                   THEN [self EXCEPT !.potential = value]
                   ELSE self
             s2 == IF s1.age >= s1.level
                   THEN [s1 EXCEPT !.previous = s1.potential]
                   ELSE s1
             result == IF s1.age >= s1.level THEN s1.potential
                       ELSE IF s1.return_previous THEN s1.previous
                       ELSE "None"
         IN  [self |-> [s2 EXCEPT !.age = Min(s2.age + 1, s2.level)],
              result |-> result]

\* Persistence_update whose level-0 early return gives self.previous.
Persistence_update_Level0Previous(self, value) ==
    IF self.level = 0
    THEN [self |-> self, result |-> self.previous]
    ELSE LET s1 == IF value # self.potential
                   THEN [self EXCEPT !.age = 0, !.potential = value]
                   ELSE self
             s2 == IF s1.age >= s1.level
                   THEN [s1 EXCEPT !.previous = s1.potential]
                   ELSE s1
             result == IF s1.age >= s1.level THEN s1.potential
                       ELSE IF s1.return_previous THEN s1.previous
                       ELSE "None"
         IN  [self |-> [s2 EXCEPT !.age = Min(s2.age + 1, s2.level)],
              result |-> result]

\* Persistence_update without the assignment previous = potential.
Persistence_update_PreviousNotSet(self, value) ==
    IF self.level = 0
    THEN [self |-> self, result |-> value]
    ELSE LET s1 == IF value # self.potential
                   THEN [self EXCEPT !.age = 0, !.potential = value]
                   ELSE self
             result == IF s1.age >= s1.level THEN s1.potential
                       ELSE IF s1.return_previous THEN s1.previous
                       ELSE "None"
         IN  [self |-> [s1 EXCEPT !.age = Min(s1.age + 1, s1.level)],
              result |-> result]

Persistence_update(self, value) ==
    IF self.level = 0
    THEN [self |-> self, result |-> value]
    ELSE LET s1 == IF value # self.potential
                   THEN [self EXCEPT !.age = 0, !.potential = value]
                   ELSE self
             s2 == IF s1.age >= s1.level
                   THEN [s1 EXCEPT !.previous = s1.potential]
                   ELSE s1
             result == IF s1.age >= s1.level THEN s1.potential
                       ELSE IF s1.return_previous THEN s1.previous
                       ELSE "None"
         IN  [self |-> [s2 EXCEPT !.age = Min(s2.age + 1, s2.level)],
              result |-> result]

Changed_new(enabled) == [previous |-> "None", enabled |-> enabled]

\* Changed_update remembering the value it returned, not the value it was given.
Changed_update_RemembersResult(self, value) ==
    IF ~self.enabled
    THEN [self |-> self, result |-> value]
    ELSE LET result == IF value # self.previous THEN value ELSE "None"
         IN  [self |-> [self EXCEPT !.previous = result], result |-> result]

Changed_update(self, value) ==
    IF ~self.enabled
    THEN [self |-> self, result |-> value]
    ELSE [self |-> [self EXCEPT !.previous = value],
          result |-> IF value # self.previous THEN value ELSE "None"]

\* The older Changed (the file under strategies/ of the older crate).
OldChanged_new(enabled) == [previous |-> "None", enabled |-> enabled]

\* OldChanged_update that never stores the value it was given.
OldChanged_update_ForgetsValue(self, value) ==
    IF ~self.enabled
    THEN [self |-> self, result |-> value]
    ELSE [self |-> self,
          result |-> IF value # self.previous THEN value ELSE "None"]

OldChanged_update(self, value) ==
    IF ~self.enabled
    THEN [self |-> self, result |-> value]
    ELSE LET result == IF value # self.previous THEN value ELSE "None"
         IN  [self |-> [self EXCEPT !.previous = value], result |-> result]

\* combine giving the first advice, not Liquidate, when the two disagree.
combine_FirstWins(advice1, advice2) ==
    IF advice1 = "None" \/ advice2 = "None" THEN "None"
    ELSE advice1

combine(advice1, advice2) ==
    IF advice1 = "None" \/ advice2 = "None" THEN "None"
    ELSE IF advice1 = advice2 THEN advice1
    ELSE "Liquidate"

-----------------------------------------------------------------------------
(* u32 values, as two 16-bit limbs <<high, low>>: the counters t and t1 are
   u32, and t1 is computed with a subtraction that can pass below zero. *)

U32Limb == 65536

U32(n) == <<n \div U32Limb, n % U32Limb>>

U32_le(a, b) == a[1] < b[1] \/ (a[1] = b[1] /\ a[2] <= b[2])

U32_min(a, b) == IF U32_le(a, b) THEN a ELSE b

U32_wrapping_add1(a) ==
    IF a[2] + 1 < U32Limb THEN <<a[1], a[2] + 1>>
    ELSE IF a[1] + 1 < U32Limb THEN <<a[1] + 1, 0>>
    ELSE <<0, 0>>

U32_wrapping_sub1(a) ==
    IF a[2] > 0 THEN <<a[1], a[2] - 1>>
    ELSE IF a[1] > 0 THEN <<a[1] - 1, U32Limb - 1>>
    ELSE <<U32Limb - 1, U32Limb - 1>>

\* A panic ends the process: the object does not exist afterwards.
Panicked == [panic |-> TRUE]

\* a - 1 on u32 panics when a = 0 and the build checks for overflow (a debug
\* build); without the checks (a release build) it wraps to 2^32 - 1.
U32_sub1_panics(a, overflow_checks) == a = U32(0) /\ overflow_checks

-----------------------------------------------------------------------------
(* The constituent signal S and oscillator O of a Sig / SigOsc: a candle
   counter saturated at its maturity, mature once the counter reaches it; the
   advice and the overbought / oversold flags are whatever the candle makes
   them. *)

Signal_new(maturity) == [t |-> 0, t1 |-> maturity, advice |-> "None"]

Signal_maturity(self) == self.t1

Signal_mature(self) == self.t >= self.t1

Signal_advice(self) == self.advice

Signal_update(self, advice) ==
    LET t == Min(self.t + 1, self.t1)
    IN  [self EXCEPT !.t = t, !.advice = IF t >= self.t1 THEN advice ELSE "None"]

Oscillator_new(maturity) ==
    [t |-> 0, t1 |-> maturity, overbought |-> FALSE, oversold |-> FALSE]

Oscillator_maturity(self) == self.t1

Oscillator_mature(self) == self.t >= self.t1

Oscillator_overbought(self) == self.overbought

Oscillator_oversold(self) == self.oversold

Oscillator_update(self, overbought, oversold) ==
    LET t == Min(self.t + 1, self.t1)
    IN  [self EXCEPT !.t = t,
                     !.overbought = t >= self.t1 /\ overbought,
                     !.oversold = t >= self.t1 /\ oversold]

-----------------------------------------------------------------------------
(* strategies/sig.rs *)

\* Sig_new building the Persistence with return_previous = true.
Sig_new_ReturnsPrevious(p, overflow_checks) ==
    LET sig == Signal_new(p.sig)
        new_mid_trend == MidTrend_new(p.mid_trend_policy)
        new_persistence == Persistence_new(p.persistence, TRUE)
        sum == U32(Signal_maturity(sig)
                   + Max(MidTrend_maturity(new_mid_trend),
                         Persistence_maturity(new_persistence)))
    IN  IF U32_sub1_panics(sum, overflow_checks) THEN Panicked
        ELSE [sig |-> sig, mid_trend |-> new_mid_trend,
              persistence |-> new_persistence,
              advice |-> "None", t |-> U32(0), t1 |-> U32_wrapping_sub1(sum)]

Sig_new(p, overflow_checks) ==
    LET sig == Signal_new(p.sig)
        new_mid_trend == MidTrend_new(p.mid_trend_policy)
        new_persistence == Persistence_new(p.persistence, FALSE)
        sum == U32(Signal_maturity(sig)
                   + Max(MidTrend_maturity(new_mid_trend),
                         Persistence_maturity(new_persistence)))
    IN  IF U32_sub1_panics(sum, overflow_checks) THEN Panicked
        ELSE [sig |-> sig, mid_trend |-> new_mid_trend,
              persistence |-> new_persistence,
              advice |-> "None", t |-> U32(0), t1 |-> U32_wrapping_sub1(sum)]

Sig_maturity(self) == self.t1

Sig_mature(self) == U32_le(self.t1, self.t)

Sig_update(self, advice) ==
    LET t == U32_min(U32_wrapping_add1(self.t), self.t1)
        sig == Signal_update(self.sig, advice)
        m == MidTrend_update(self.mid_trend, Signal_advice(sig))
        p == Persistence_update(self.persistence, Signal_advice(sig))
    IN  IF Signal_mature(sig)
        THEN [self EXCEPT !.t = t, !.sig = sig,
                          !.advice = combine(m.result, p.result),
                          !.mid_trend = m.self, !.persistence = p.self]
        ELSE [self EXCEPT !.t = t, !.sig = sig]

(* strategies/sig_osc.rs *)

OSC_FILTER_ENFORCE == 0
OSC_FILTER_PREVENT == 1

SigOsc_filter_enforce(self, advice) ==
    CASE advice = "None" -> "None"
      [] advice = "Liquidate" -> "Liquidate"
      [] advice = "Long" ->
            IF Oscillator_oversold(self.osc) THEN "Long" ELSE "Liquidate"
      [] advice = "Short" ->
            IF Oscillator_overbought(self.osc) THEN "Short" ELSE "Liquidate"

\* filter_prevent testing the oscillator flag of the other direction.
SigOsc_filter_prevent_OtherFlag(self, advice) ==
    CASE advice = "None" -> "None"
      [] advice = "Liquidate" -> "Liquidate"
      [] advice = "Long" ->
            IF Oscillator_oversold(self.osc) THEN "Liquidate" ELSE "Long"
      [] advice = "Short" ->
            IF Oscillator_overbought(self.osc) THEN "Liquidate" ELSE "Short"

SigOsc_filter_prevent(self, advice) ==
    CASE advice = "None" -> "None"
      [] advice = "Liquidate" -> "Liquidate"
      [] advice = "Long" ->
            IF Oscillator_overbought(self.osc) THEN "Liquidate" ELSE "Long"
      [] advice = "Short" ->
            IF Oscillator_oversold(self.osc) THEN "Liquidate" ELSE "Short"

\* The result "panic" is the panic on an osc_filter that is neither constant.
SigOsc_filter(self, advice) ==
    CASE self.osc_filter = OSC_FILTER_ENFORCE -> SigOsc_filter_enforce(self, advice)
      [] self.osc_filter = OSC_FILTER_PREVENT -> SigOsc_filter_prevent(self, advice)
      [] OTHER -> "panic"

\* No call of the filter: the signal or the oscillator is not mature.
NoFilterCall ==
    [called |-> FALSE, osc_filter |-> 0, advice |-> "None",
     overbought |-> FALSE, oversold |-> FALSE, result |-> "None"]

SigOsc_new(p, overflow_checks) ==
    LET sig == Signal_new(p.sig)
        osc == Oscillator_new(p.osc)
        new_mid_trend == MidTrend_new(p.mid_trend_policy)
        new_persistence == Persistence_new(p.persistence, FALSE)
        sum == U32(Max(Signal_maturity(sig), Oscillator_maturity(osc))
                   + Max(MidTrend_maturity(new_mid_trend),
                         Persistence_maturity(new_persistence)))
    IN  IF U32_sub1_panics(sum, overflow_checks) THEN Panicked
        ELSE [sig |-> sig, osc |-> osc, osc_filter |-> p.osc_filter,
              mid_trend |-> new_mid_trend, persistence |-> new_persistence,
              advice |-> "None", t |-> U32(0), t1 |-> U32_wrapping_sub1(sum)]

SigOsc_maturity(self) == self.t1

SigOsc_mature(self) == U32_le(self.t1, self.t)

SigOsc_update(self, sig_advice, overbought, oversold) ==
    LET t == U32_min(U32_wrapping_add1(self.t), self.t1)
        sig == Signal_update(self.sig, sig_advice)
        osc == Oscillator_update(self.osc, overbought, oversold)
        s1 == [self EXCEPT !.t = t, !.sig = sig, !.osc = osc]
        advice == SigOsc_filter(s1, Signal_advice(sig))
        m == MidTrend_update(s1.mid_trend, advice)
        p == Persistence_update(s1.persistence, advice)
    IN  IF Signal_mature(sig) /\ Oscillator_mature(osc)
        THEN IF advice = "panic" THEN Panicked
             ELSE [s1 EXCEPT !.advice = combine(m.result, p.result),
                             !.mid_trend = m.self, !.persistence = p.self]
        ELSE s1

-----------------------------------------------------------------------------
(* trading/stop_loss.rs

   f64 prices are decimals with one place, held in tenths (1000 is 100.0);
   an f64 threshold is held in thousandths (100 is 0.1).  On the prices and
   thresholds of this model every product and comparison below gives in f64
   what it gives exactly. *)

\* 1.0 - threshold and 1.0 + threshold, in thousandths.
OneMinus(threshold) == 1000 - threshold
OnePlus(threshold) == 1000 + threshold

\* a <= b * f and a >= b * f, for prices a, b and a factor f in thousandths.
F64_le_product(a, b, f) == a * 1000 <= b * f
\* f64::MAX, the largest finite f64: above every price.  Its product with a
\* factor above 1.0 is +inf, which no price reaches.
F64_MAX == 2147483647
F64_ge_product(a, b, f) ==
    IF b = F64_MAX THEN f <= 1000 /\ a = F64_MAX ELSE a * 1000 >= b * f
F64_max(a, b) == IF a >= b THEN a ELSE b
F64_min(a, b) == IF a <= b THEN a ELSE b

BasicStopLoss_new(p) ==
    [threshold |-> p.threshold, close_at_position |-> 0, close |-> 0]

\* upside_hit comparing with < where the code compares with <=.
BasicStopLoss_upside_hit_Strict(self) ==
    ~F64_ge_product(self.close, self.close_at_position, OneMinus(self.threshold))

BasicStopLoss_upside_hit(self) ==
    F64_le_product(self.close, self.close_at_position, OneMinus(self.threshold))

BasicStopLoss_downside_hit(self) ==
    F64_ge_product(self.close, self.close_at_position, OnePlus(self.threshold))

BasicStopLoss_clear(self, candle) ==
    [self EXCEPT !.close_at_position = candle.close]

BasicStopLoss_update(self, candle) ==
    [self EXCEPT !.close = candle.close]

TrailingStopLoss_new(p) ==
    [threshold |-> p.threshold, highest_close_since_position |-> 0,
     lowest_close_since_position |-> F64_MAX, close |-> 0]

TrailingStopLoss_upside_hit(self) ==
    F64_le_product(self.close, self.highest_close_since_position,
                   OneMinus(self.threshold))

TrailingStopLoss_downside_hit(self) ==
    F64_ge_product(self.close, self.lowest_close_since_position,
                   OnePlus(self.threshold))

\* clear resetting the highest close only.
TrailingStopLoss_clear_KeepsLowest(self, candle) ==
    [self EXCEPT !.highest_close_since_position = candle.close]

TrailingStopLoss_clear(self, candle) ==
    [self EXCEPT !.highest_close_since_position = candle.close,
                 !.lowest_close_since_position = candle.close]

\* update folding the close into the wrong extreme.
TrailingStopLoss_update_SwapsExtremes(self, candle) ==
    [self EXCEPT
        !.close = candle.close,
        !.highest_close_since_position = F64_min(@, candle.close),
        !.lowest_close_since_position = F64_max(@, candle.close)]

TrailingStopLoss_update(self, candle) ==
    [self EXCEPT
        !.close = candle.close,
        !.highest_close_since_position = F64_max(@, candle.close),
        !.lowest_close_since_position = F64_min(@, candle.close)]

\* No clear and no update yet.
NoCalls ==
    [cleared |-> FALSE, entry |-> 0, updated |-> FALSE, last |-> 0,
     closes |-> << >>, hits |-> << >>, trailing_hits |-> << >>]

-----------------------------------------------------------------------------
(* juno_derive_rs/src/lib.rs, genetics/mod.rs, strategies/sig_osc.rs:
   chromosomes.

   A chromosome is a record of its struct fields.  The random number
   generator is the raw value r it yields next; a gene generator is a
   function of r.  Booleans are 0 and 1, f64 genes are in ten-thousandths.
   cross and mutate return the new self (and parent) and whether the call
   panicked with "index out of bounds". *)

\* The field names of a struct with #[derive(Chromosome)], in declaration
\* order.  S and O stand for the parameter structs of a signal and of an
\* oscillator, with two fields and one field.
Fields(name) ==
    CASE name = "TraderParams" ->
            <<"missed_candle_policy", "stop_loss", "trail_stop_loss", "take_profit">>
      [] name = "SigParams" -> <<"sig", "persistence", "mid_trend_policy">>
      [] name = "S" -> <<"s0", "s1">>
      [] name = "O" -> <<"o0">>

\* rng.gen_range(0..n) and rng.gen_bool(0.5)
gen_range(r, n) == r % n
gen_bool(r) == r % 2 = 0

missed_candle_policy(r) == gen_range(r, 3)
stop_loss(r) == IF gen_bool(r) THEN 0 ELSE 1 + r
trail_stop_loss(r) == IF gen_bool(r) THEN 1 ELSE 0
take_profit(r) == IF gen_bool(r) THEN 0 ELSE 10 + r

gen_osc_filter(r) == IF gen_bool(r) THEN OSC_FILTER_ENFORCE ELSE OSC_FILTER_PREVENT
gen_persistence(r) == gen_range(r, 10)
\* MID_TREND_POLICY_CHOICES.choose(rng), as the index of the choice
gen_mid_trend_policy(r) == gen_range(r, 3)

\* field(rng): the function named after the field.
FieldGenerator(field, r) ==
    CASE field = "missed_candle_policy" -> missed_candle_policy(r)
      [] field = "stop_loss" -> stop_loss(r)
      [] field = "trail_stop_loss" -> trail_stop_loss(r)
      [] field = "take_profit" -> take_profit(r)
      [] field \in {"s0", "s1", "o0"} -> gen_range(r, 2)

Derived_len(name) == Len(Fields(name))

\* derived cross that assigns the first field whatever the index is.
Derived_cross_FirstField(name, self, parent, i) ==
    IF i < Derived_len(name)
    THEN [panic |-> FALSE, parent |-> parent,
          self |-> [self EXCEPT ![Fields(name)[1]] = parent[Fields(name)[1]]]]
    ELSE [panic |-> TRUE, self |-> self, parent |-> parent]

Derived_cross(name, self, parent, i) ==
    IF i < Derived_len(name)
    THEN [panic |-> FALSE, parent |-> parent,
          self |-> [self EXCEPT ![Fields(name)[i + 1]] = parent[Fields(name)[i + 1]]]]
    ELSE [panic |-> TRUE, self |-> self, parent |-> parent]

Derived_mutate(name, self, r, i) ==
    IF i < Derived_len(name)
    THEN [panic |-> FALSE,
          self |-> [self EXCEPT ![Fields(name)[i + 1]] =
                                    FieldGenerator(Fields(name)[i + 1], r)]]
    ELSE [panic |-> TRUE, self |-> self]

SigOscParams_len == Derived_len("S") + Derived_len("O") + 3

\* SigOscParams::cross whose last arm takes every remaining index.
SigOscParams_cross_NoBoundsCheck(self, other, i) ==
    LET i1 == i - Derived_len("S")
        i2 == i1 - Derived_len("O")
    IN  IF i < Derived_len("S")
        THEN LET c == Derived_cross("S", self.sig, other.sig, i)
             IN  [panic |-> c.panic, self |-> [self EXCEPT !.sig = c.self],
                  parent |-> [other EXCEPT !.sig = c.parent]]
        ELSE IF i1 < Derived_len("O")
        THEN LET c == Derived_cross("O", self.osc, other.osc, i1)
             IN  [panic |-> c.panic, self |-> [self EXCEPT !.osc = c.self],
                  parent |-> [other EXCEPT !.osc = c.parent]]
        ELSE CASE i2 = 0 ->
                    [panic |-> FALSE,
                     self |-> [self EXCEPT !.osc_filter = other.osc_filter],
                     parent |-> [other EXCEPT !.osc_filter = self.osc_filter]]
               [] i2 = 1 ->
                    [panic |-> FALSE,
                     self |-> [self EXCEPT !.persistence = other.persistence],
                     parent |-> [other EXCEPT !.persistence = self.persistence]]
               [] OTHER ->
                    [panic |-> FALSE,
                     self |-> [self EXCEPT !.mid_trend_policy = other.mid_trend_policy],
                     parent |-> [other EXCEPT !.mid_trend_policy = self.mid_trend_policy]]

\* std::mem::swap exchanges the field between self and other.
\* serialize_osc_filter: the representation written, "panic" for the panic
\* on a value that is neither constant.
serialize_osc_filter(value) ==
    CASE value = OSC_FILTER_ENFORCE -> "enforce"
      [] value = OSC_FILTER_PREVENT -> "prevent"
      [] OTHER -> "panic"

\* SigOscParams::cross exchanging the osc_filter gene with the other's
\* persistence gene.
SigOscParams_cross_FilterForPersistence(self, other, i) ==
    LET i1 == i - Derived_len("S")
        i2 == i1 - Derived_len("O")
    IN  IF i < Derived_len("S")
        THEN LET c == Derived_cross("S", self.sig, other.sig, i)
             IN  [panic |-> c.panic, self |-> [self EXCEPT !.sig = c.self],
                  parent |-> [other EXCEPT !.sig = c.parent]]
        ELSE IF i1 < Derived_len("O")
        THEN LET c == Derived_cross("O", self.osc, other.osc, i1)
             IN  [panic |-> c.panic, self |-> [self EXCEPT !.osc = c.self],
                  parent |-> [other EXCEPT !.osc = c.parent]]
        ELSE CASE i2 = 0 ->
                    [panic |-> FALSE,
                     self |-> [self EXCEPT !.osc_filter = other.persistence],
                     parent |-> [other EXCEPT !.persistence = self.osc_filter]]
               [] i2 = 1 ->
                    [panic |-> FALSE,
                     self |-> [self EXCEPT !.persistence = other.persistence],
                     parent |-> [other EXCEPT !.persistence = self.persistence]]
               [] i2 = 2 ->
                    [panic |-> FALSE,
                     self |-> [self EXCEPT !.mid_trend_policy = other.mid_trend_policy],
                     parent |-> [other EXCEPT !.mid_trend_policy = self.mid_trend_policy]]
               [] OTHER -> [panic |-> TRUE, self |-> self, parent |-> other]

SigOscParams_cross(self, other, i) ==
    LET i1 == i - Derived_len("S")
        i2 == i1 - Derived_len("O")
    IN  IF i < Derived_len("S")
        THEN LET c == Derived_cross("S", self.sig, other.sig, i)
             IN  [panic |-> c.panic, self |-> [self EXCEPT !.sig = c.self],
                  parent |-> [other EXCEPT !.sig = c.parent]]
        ELSE IF i1 < Derived_len("O")
        THEN LET c == Derived_cross("O", self.osc, other.osc, i1)
             IN  [panic |-> c.panic, self |-> [self EXCEPT !.osc = c.self],
                  parent |-> [other EXCEPT !.osc = c.parent]]
        ELSE CASE i2 = 0 ->
                    [panic |-> FALSE,
                     self |-> [self EXCEPT !.osc_filter = other.osc_filter],
                     parent |-> [other EXCEPT !.osc_filter = self.osc_filter]]
               [] i2 = 1 ->
                    [panic |-> FALSE,
                     self |-> [self EXCEPT !.persistence = other.persistence],
                     parent |-> [other EXCEPT !.persistence = self.persistence]]
               [] i2 = 2 ->
                    [panic |-> FALSE,
                     self |-> [self EXCEPT !.mid_trend_policy = other.mid_trend_policy],
                     parent |-> [other EXCEPT !.mid_trend_policy = self.mid_trend_policy]]
               [] OTHER -> [panic |-> TRUE, self |-> self, parent |-> other]

\* SigOscParams::mutate giving the persistence gene the osc_filter generator.
SigOscParams_mutate_WrongGenerator(self, r, i) ==
    LET i1 == i - Derived_len("S")
        i2 == i1 - Derived_len("O")
    IN  IF i < Derived_len("S")
        THEN LET m == Derived_mutate("S", self.sig, r, i)
             IN  [panic |-> m.panic, self |-> [self EXCEPT !.sig = m.self]]
        ELSE IF i1 < Derived_len("O")
        THEN LET m == Derived_mutate("O", self.osc, r, i1)
             IN  [panic |-> m.panic, self |-> [self EXCEPT !.osc = m.self]]
        ELSE CASE i2 = 0 ->
                    [panic |-> FALSE,
                     self |-> [self EXCEPT !.osc_filter = gen_osc_filter(r)]]
               [] i2 = 1 ->
                    [panic |-> FALSE,
                     self |-> [self EXCEPT !.persistence = gen_osc_filter(r)]]
               [] i2 = 2 ->
                    [panic |-> FALSE,
                     self |-> [self EXCEPT !.mid_trend_policy = gen_mid_trend_policy(r)]]
               [] OTHER -> [panic |-> TRUE, self |-> self]

SigOscParams_mutate(self, r, i) ==
    LET i1 == i - Derived_len("S")
        i2 == i1 - Derived_len("O")
    IN  IF i < Derived_len("S")
        THEN LET m == Derived_mutate("S", self.sig, r, i)
             IN  [panic |-> m.panic, self |-> [self EXCEPT !.sig = m.self]]
        ELSE IF i1 < Derived_len("O")
        THEN LET m == Derived_mutate("O", self.osc, r, i1)
             IN  [panic |-> m.panic, self |-> [self EXCEPT !.osc = m.self]]
        ELSE CASE i2 = 0 ->
                    [panic |-> FALSE,
                     self |-> [self EXCEPT !.osc_filter = gen_osc_filter(r)]]
               [] i2 = 1 ->
                    [panic |-> FALSE,
                     self |-> [self EXCEPT !.persistence = gen_persistence(r)]]
               [] i2 = 2 ->
                    [panic |-> FALSE,
                     self |-> [self EXCEPT !.mid_trend_policy = gen_mid_trend_policy(r)]]
               [] OTHER -> [panic |-> TRUE, self |-> self]

\* Individual<T>, with T the two-field struct S.
Individual_len == Derived_len("TraderParams") + Derived_len("S")

Individual_cross(self, parent, i) ==
    IF i < Derived_len("TraderParams")
    THEN LET c == Derived_cross("TraderParams", self.trader, parent.trader, i)
         IN  [panic |-> c.panic, self |-> [self EXCEPT !.trader = c.self],
              parent |-> parent]
    ELSE LET c == Derived_cross("S", self.strategy, parent.strategy,
                                i - Derived_len("TraderParams"))
         IN  [panic |-> c.panic, self |-> [self EXCEPT !.strategy = c.self],
              parent |-> parent]

\* Individual::mutate with the strategy genes at the first indices.
Individual_mutate_StrategyFirst(self, r, i) ==
    IF i < Derived_len("S")
    THEN LET m == Derived_mutate("S", self.strategy, r, i)
         IN  [panic |-> m.panic, self |-> [self EXCEPT !.strategy = m.self]]
    ELSE LET m == Derived_mutate("TraderParams", self.trader, r,
                                 i - Derived_len("S"))
         IN  [panic |-> m.panic, self |-> [self EXCEPT !.trader = m.self]]

Individual_mutate(self, r, i) ==
    IF i < Derived_len("TraderParams")
    THEN LET m == Derived_mutate("TraderParams", self.trader, r, i)
         IN  [panic |-> m.panic, self |-> [self EXCEPT !.trader = m.self]]
    ELSE LET m == Derived_mutate("S", self.strategy, r,
                                 i - Derived_len("TraderParams"))
         IN  [panic |-> m.panic, self |-> [self EXCEPT !.strategy = m.self]]

\* The Chromosome trait, by implementing type.
Chromosome_len(type) ==
    CASE type = "SigOscParams" -> SigOscParams_len
      [] type = "Individual" -> Individual_len
      [] OTHER -> Derived_len(type)

Chromosome_cross(type, self, other, i) ==
    CASE type = "SigOscParams" -> SigOscParams_cross(self, other, i)
      [] type = "Individual" -> Individual_cross(self, other, i)
      [] OTHER -> Derived_cross(type, self, other, i)

Chromosome_mutate(type, self, r, i) ==
    CASE type = "SigOscParams" -> SigOscParams_mutate(self, r, i)
      [] type = "Individual" -> Individual_mutate(self, r, i)
      [] OTHER -> Derived_mutate(type, self, r, i)

\* No call on the chromosome yet.
NoCall ==
    [op |-> "none", i |-> 0, r |-> 0, self |-> << >>, parent |-> << >>,
     panic |-> FALSE, len |-> 0]

-----------------------------------------------------------------------------
(* juno_warp_rs/src/routes/optimize.rs

   A fitness is an integer; an entry of best_fitnesses is << >> for f64::NAN
   and <<f>> for the fitness f.  A hall of fame is the sequence of the
   fitnesses of its individuals, best first. *)

F64_NAN == << >>
F64_is_nan(x) == x = F64_NAN
\* fitness > best_fitness, false when best_fitness is NaN
F64_gt(fitness, best_fitness) ==
    ~F64_is_nan(best_fitness) /\ fitness > best_fitness[1]

\* The ranks the filter closure looks at: 0..min(hall_of_fame_size, len),
\* as positions from 1.
RanksSeen(hall_of_fame_size, hall_of_fame) ==
    1..Min(hall_of_fame_size, Len(hall_of_fame))

\* The filter closure letting through a rank that equals the best so far.
FilterGeneration_NotStrict(best_fitnesses, hall_of_fame_size, hall_of_fame) ==
    LET improved ==
            {i \in RanksSeen(hall_of_fame_size, hall_of_fame) :
                \/ F64_is_nan(best_fitnesses[i])
                \/ ~F64_gt(best_fitnesses[i][1], <<hall_of_fame[i]>>)}
    IN  [best_fitnesses |->
            [i \in 1..Len(best_fitnesses) |->
                IF i \in improved THEN <<hall_of_fame[i]>> ELSE best_fitnesses[i]],
         pass |-> improved # {}]

\* The filter closure on one generation: the new best_fitnesses and whether
\* the generation passes.  Rank i reads and writes best_fitnesses[i] only.
FilterGeneration(best_fitnesses, hall_of_fame_size, hall_of_fame) ==
    LET improved ==
            {i \in RanksSeen(hall_of_fame_size, hall_of_fame) :
                \/ F64_is_nan(best_fitnesses[i])
                \/ F64_gt(hall_of_fame[i], best_fitnesses[i])}
    IN  [best_fitnesses |->
            [i \in 1..Len(best_fitnesses) |->
                IF i \in improved THEN <<hall_of_fame[i]>> ELSE best_fitnesses[i]],
         pass |-> improved # {}]

\* generations.into_iter().enumerate().filter(..).map(..).collect(), from the
\* generation at position g on.
RECURSIVE FilterMap(_, _, _, _)
FilterMap(generations, g, best_fitnesses, hall_of_fame_size) ==
    IF g > Len(generations) THEN << >>
    ELSE LET f == FilterGeneration(best_fitnesses, hall_of_fame_size, generations[g])
             rest == FilterMap(generations, g + 1, f.best_fitnesses, hall_of_fame_size)
         IN  IF f.pass
             THEN <<[nr |-> g - 1, hall_of_fame |-> generations[g]]>> \o rest
             ELSE rest

process(args, evolved) ==
    LET best_fitnesses == [i \in 1..args.hall_of_fame_size |-> F64_NAN]
    IN  [generations |-> FilterMap(evolved.generations, 1, best_fitnesses,
                                   args.hall_of_fame_size),
         seed |-> evolved.seed]

\* No request processed yet.
NoResponse == [generations |-> << >>, seed |-> 0]

-----------------------------------------------------------------------------
(* math.rs

   u64 values up to MaxValue: `value as f64`, the f64 quotient of two such
   values and its ceiling are exact there, and no u64 operation overflows. *)

\* value % multiple panics on a zero multiple.
floor_multiple_RoundsUp(value, multiple) ==
    IF multiple = 0 THEN [panic |-> TRUE, result |-> 0]
    ELSE [panic |-> FALSE, result |-> value - (value % multiple) + multiple]

floor_multiple(value, multiple) ==
    IF multiple = 0 THEN [panic |-> TRUE, result |-> 0]
    ELSE [panic |-> FALSE, result |-> value - (value % multiple)]

\* f64::ceil(value as f64 / multiple as f64) as u64, for multiple > 0
F64_ceil_div(value, multiple) ==
    IF value % multiple = 0 THEN value \div multiple ELSE value \div multiple + 1

\* ceil_multiple taking the next multiple even from a multiple.
ceil_multiple_NextMultiple(value, multiple) ==
    IF multiple = 0 THEN [panic |-> FALSE, result |-> 0]
    ELSE [panic |-> FALSE, result |-> (value \div multiple + 1) * multiple]

\* A zero multiple makes the quotient +inf or NaN, which `as u64` turns into
\* u64::MAX or 0; times the multiple that is 0.
ceil_multiple(value, multiple) ==
    IF multiple = 0 THEN [panic |-> FALSE, result |-> 0]
    ELSE [panic |-> FALSE, result |-> F64_ceil_div(value, multiple) * multiple]

\* No call yet.
NoMathCall ==
    [fn |-> "none", value |-> 0, multiple |-> 0, panic |-> FALSE, result |-> 0]

-----------------------------------------------------------------------------
(* lib.rs: the moving-average tags and the mamacx entry point;
   strategies/mod.rs: ma_to_str and str_to_ma.

   A tag is a u32 below 2^31, held as an integer.  A moving average is the
   name of its type and the period it was constructed with. *)

\* The ASCII bytes of a moving-average name.
Ascii(name) ==
    CASE name = "alma" -> <<97, 108, 109, 97>>
      [] name = "dema" -> <<100, 101, 109, 97>>
      [] name = "ema" -> <<101, 109, 97>>
      [] name = "ema2" -> <<101, 109, 97, 50>>
      [] name = "kama" -> <<107, 97, 109, 97>>
      [] name = "sma" -> <<115, 109, 97>>
      [] name = "smma" -> <<115, 109, 109, 97>>

\* The Adler-32 checksum of a byte sequence: a is 1 plus the sum of the bytes,
\* b the sum of the successive values of a, both modulo 65521; the checksum
\* is b * 2^16 + a.
RECURSIVE Adler32Sums(_, _, _, _)
Adler32Sums(bytes, k, a, b) ==
    IF k > Len(bytes) THEN [a |-> a, b |-> b]
    ELSE LET a1 == (a + bytes[k]) % 65521
         IN  Adler32Sums(bytes, k + 1, a1, (b + a1) % 65521)

Adler32Checksum(bytes) ==
    LET sums == Adler32Sums(bytes, 1, 1, 0)
    IN  sums.b * U32Limb + sums.a

\* Adler32 of lowercased indicator name.
EMA_ == 40698164
EMA2 == 64160102
SMA_ == 43450690
\* SMMA carrying the checksum of "sma".
SMMA_ChecksumOfSma == SMA_
SMMA == 72483247
DEMA == 66978200

\* No strategy was constructed.
NoMAMACX ==
    [short_ma |-> [type |-> "", period |-> 0],
     long_ma |-> [type |-> "", period |-> 0]]

\* run_mamacx_test constructing the two moving averages the other way round.
run_mamacx_test_Swapped(TShort, TLong, mamacx_info) ==
    [panic |-> FALSE,
     strategy |-> [short_ma |-> [type |-> TLong, period |-> mamacx_info.long_period],
                   long_ma |-> [type |-> TShort, period |-> mamacx_info.short_period]]]

\* MAMACX::new(TShort::new(short_period), TLong::new(long_period), ..), which
\* run_test then trades with.
run_mamacx_test(TShort, TLong, mamacx_info) ==
    [panic |-> FALSE,
     strategy |-> [short_ma |-> [type |-> TShort, period |-> mamacx_info.short_period],
                   long_ma |-> [type |-> TLong, period |-> mamacx_info.long_period]]]

mamacx(info) ==
    CASE info.short_ma = EMA_ /\ info.long_ma = EMA_ ->
            run_mamacx_test("Ema", "Ema", info)
      [] info.short_ma = EMA_ /\ info.long_ma = EMA2 ->
            run_mamacx_test("Ema", "Ema2", info)
      [] info.short_ma = EMA_ /\ info.long_ma = SMA_ ->
            run_mamacx_test("Ema", "Sma", info)
      [] info.short_ma = EMA_ /\ info.long_ma = SMMA ->
            run_mamacx_test("Ema", "Smma", info)
      [] info.short_ma = EMA_ /\ info.long_ma = DEMA ->
            run_mamacx_test("Ema", "Dema", info)
      [] info.short_ma = EMA2 /\ info.long_ma = EMA_ ->
            run_mamacx_test("Ema2", "Ema", info)
      [] info.short_ma = EMA2 /\ info.long_ma = EMA2 ->
            run_mamacx_test("Ema2", "Ema2", info)
      [] info.short_ma = EMA2 /\ info.long_ma = SMA_ ->
            run_mamacx_test("Ema2", "Sma", info)
      [] info.short_ma = EMA2 /\ info.long_ma = SMMA ->
            run_mamacx_test("Ema2", "Smma", info)
      [] info.short_ma = EMA2 /\ info.long_ma = DEMA ->
            run_mamacx_test("Ema2", "Dema", info)
      [] info.short_ma = SMA_ /\ info.long_ma = EMA_ ->
            run_mamacx_test("Sma", "Ema", info)
      [] info.short_ma = SMA_ /\ info.long_ma = EMA2 ->
            run_mamacx_test("Sma", "Ema2", info)
      [] info.short_ma = SMA_ /\ info.long_ma = SMA_ ->
            run_mamacx_test("Sma", "Sma", info)
      [] info.short_ma = SMA_ /\ info.long_ma = SMMA ->
            run_mamacx_test("Sma", "Smma", info)
      [] info.short_ma = SMA_ /\ info.long_ma = DEMA ->
            run_mamacx_test("Sma", "Dema", info)
      [] info.short_ma = SMMA /\ info.long_ma = EMA_ ->
            run_mamacx_test("Smma", "Ema", info)
      [] info.short_ma = SMMA /\ info.long_ma = EMA2 ->
            run_mamacx_test("Smma", "Ema2", info)
      [] info.short_ma = SMMA /\ info.long_ma = SMA_ ->
            run_mamacx_test("Smma", "Sma", info)
      [] info.short_ma = SMMA /\ info.long_ma = SMMA ->
            run_mamacx_test("Smma", "Smma", info)
      [] info.short_ma = SMMA /\ info.long_ma = DEMA ->
            run_mamacx_test("Smma", "Dema", info)
      [] info.short_ma = DEMA /\ info.long_ma = EMA_ ->
            run_mamacx_test("Dema", "Ema", info)
      [] info.short_ma = DEMA /\ info.long_ma = EMA2 ->
            run_mamacx_test("Dema", "Ema2", info)
      [] info.short_ma = DEMA /\ info.long_ma = SMA_ ->
            run_mamacx_test("Dema", "Sma", info)
      [] info.short_ma = DEMA /\ info.long_ma = SMMA ->
            run_mamacx_test("Dema", "Smma", info)
      [] info.short_ma = DEMA /\ info.long_ma = DEMA ->
            run_mamacx_test("Dema", "Dema", info)
      [] OTHER -> [panic |-> TRUE, strategy |-> NoMAMACX]

\* indicators::adler32: the constant of a moving average is the Adler-32
\* checksum of its lowercase name.
adler32(name) == Adler32Checksum(Ascii(name))

ma_to_str(value) ==
    CASE value = adler32("alma") -> [panic |-> FALSE, result |-> "alma"]
      [] value = adler32("dema") -> [panic |-> FALSE, result |-> "dema"]
      [] value = adler32("ema") -> [panic |-> FALSE, result |-> "ema"]
      [] value = adler32("ema2") -> [panic |-> FALSE, result |-> "ema2"]
      [] value = adler32("kama") -> [panic |-> FALSE, result |-> "kama"]
      [] value = adler32("sma") -> [panic |-> FALSE, result |-> "sma"]
      [] value = adler32("smma") -> [panic |-> FALSE, result |-> "smma"]
      [] OTHER -> [panic |-> TRUE, result |-> ""]

\* str_to_ma reading "ema2" as the tag of ema.
str_to_ma_Ema2AsEma(representation) ==
    CASE representation = "alma" ->
            [panic |-> FALSE, result |-> adler32("alma")]
      [] representation = "dema" ->
            [panic |-> FALSE, result |-> adler32("dema")]
      [] representation = "ema" ->
            [panic |-> FALSE, result |-> adler32("ema")]
      [] representation = "ema2" ->
            [panic |-> FALSE, result |-> adler32("ema")]
      [] representation = "kama" ->
            [panic |-> FALSE, result |-> adler32("kama")]
      [] representation = "sma" ->
            [panic |-> FALSE, result |-> adler32("sma")]
      [] representation = "smma" ->
            [panic |-> FALSE, result |-> adler32("smma")]
      [] OTHER -> [panic |-> TRUE, result |-> 0]

str_to_ma(representation) ==
    CASE representation = "alma" ->
            [panic |-> FALSE, result |-> adler32("alma")]
      [] representation = "dema" ->
            [panic |-> FALSE, result |-> adler32("dema")]
      [] representation = "ema" ->
            [panic |-> FALSE, result |-> adler32("ema")]
      [] representation = "ema2" ->
            [panic |-> FALSE, result |-> adler32("ema2")]
      [] representation = "kama" ->
            [panic |-> FALSE, result |-> adler32("kama")]
      [] representation = "sma" ->
            [panic |-> FALSE, result |-> adler32("sma")]
      [] representation = "smma" ->
            [panic |-> FALSE, result |-> adler32("smma")]
      [] OTHER -> [panic |-> TRUE, result |-> 0]

\* No call yet.
NoMaCall ==
    [fn |-> "none", info |-> [short_ma |-> 0, long_ma |-> 0,
                              short_period |-> 0, long_period |-> 0],
     value |-> 0, representation |-> "", panic |-> FALSE,
     strategy |-> NoMAMACX, str |-> "", tag |-> 0]

-----------------------------------------------------------------------------
(* juno_warp_rs/src/routes/backtest.rs

   A Result is [ok |-> TRUE] or [ok |-> FALSE].  The store says which of its
   lookups succeed: the candles of a symbol at the trading interval, the
   exchange info, the daily candles of a symbol, the daily fiat candles. *)

Ok == [ok |-> TRUE]
Err == [ok |-> FALSE]

\* list_candles(..)? and get_exchange_info(..)?, then trade
Backtest_backtest(store, symbol) ==
    IF ~store.candles[symbol] THEN Err
    ELSE IF ~store.exchange_info THEN Err
    ELSE Ok

\* list_candles(..)? and fill_missing_candles(..)? for the symbol and for
\* coinbase btc-eur, then Statistics::compose
Backtest_get_stats(store, symbol) ==
    IF ~store.stats_candles[symbol] THEN Err
    ELSE IF ~store.fiat_candles THEN Err
    ELSE Ok

\* The outcome of process: the error or the reply it returns, or its panic
\* in an expect.
Backtest_process(bytes, store) ==
    IF ~bytes.json THEN [outcome |-> "err", symbol_stats |-> {}]
    ELSE LET symbols == {bytes.symbols[k] : k \in 1..Len(bytes.symbols)}
         IN  IF \E symbol \in symbols : ~Backtest_backtest(store, symbol).ok
             THEN [outcome |-> "panic", symbol_stats |-> {}]
             ELSE IF \E symbol \in symbols : ~Backtest_get_stats(store, symbol).ok
                  THEN [outcome |-> "panic", symbol_stats |-> {}]
                  ELSE [outcome |-> "ok", symbol_stats |-> symbols]

-----------------------------------------------------------------------------
(* genetics/mod.rs: GeneticAlgorithm

   An individual is a number; the evaluation gives each individual its
   fitness.  The generator is what it yields during one generation: how many
   parents the selection returns, and for each pair of parents whether the
   crossover exchanges them and what the mutation makes of each child (0: the
   child stays as it is). *)

Evaluation_evaluate(evaluation, population) ==
    [k \in 1..Len(population) |-> evaluation[population[k]]]

\* The individuals of the population, best first, equals in population order.
Ranked(population, fitnesses) ==
    LET before(j, k) ==
            fitnesses[j] > fitnesses[k] \/ (fitnesses[j] = fitnesses[k] /\ j < k)
        rank(k) == Cardinality({j \in 1..Len(population) : before(j, k)})
    IN  [n \in 1..Len(population) |->
            population[CHOOSE k \in 1..Len(population) : rank(k) = n - 1]]

\* EliteSelection { shuffle: false }: the best of the population; `returned`
\* of the `count` asked for.
Selection_select(population, fitnesses, count, returned) ==
    SubSeq(Ranked(population, fitnesses), 1, returned)

\* UniformCrossover: the two children are the parents, exchanged or not.
Crossover_cross(swap, parent1, parent2) ==
    IF swap THEN <<parent2, parent1>> ELSE <<parent1, parent2>>

\* UniformMutation: the child stays, or becomes the individual m.
Mutation_mutate(m, child) == IF m = 0 THEN child ELSE m

\* The loop of run_generation from parents[i] on; parents[i + 1] panics when
\* the number of parents is odd.
RECURSIVE CrossPairs(_, _, _, _)
CrossPairs(parents, rng, i, offspring) ==
    IF i >= Len(parents) THEN [panic |-> FALSE, offspring |-> offspring]
    ELSE IF i + 1 >= Len(parents) THEN [panic |-> TRUE, offspring |-> offspring]
    ELSE LET draw == rng.pairs[i \div 2 + 1]
             children == Crossover_cross(draw.swap, parents[i + 1], parents[i + 2])
             child1 == Mutation_mutate(draw.m1, children[1])
             child2 == Mutation_mutate(draw.m2, children[2])
         IN  CrossPairs(parents, rng, i + 2, offspring \o <<child1, child2>>)

run_generation(evaluation, population, rng) ==
    LET fitnesses == Evaluation_evaluate(evaluation, population)
        selection_count == Len(fitnesses)
        parents == Selection_select(population, fitnesses, selection_count,
                                    rng.returned)
    IN  CrossPairs(parents, rng, 0, << >>)

\* The start of evolve without the test of the population size.
evolve_generate_AnySize(population_size, generated) ==
    [panic |-> FALSE, population |-> generated]

\* The start of evolve: the test of the population size, then the
\* individuals Individual::generate gives.
evolve_generate(population_size, generated) ==
    IF population_size % 2 = 1
    THEN [panic |-> TRUE, population |-> << >>]
    ELSE [panic |-> FALSE, population |-> generated]

\* The comparator evolve gives max_by: f2.partial_cmp(f1).unwrap()
evolve_compare(x, y) ==
    IF y.f < x.f THEN "Less" ELSE IF y.f > x.f THEN "Greater" ELSE "Equal"

\* Iterator::max_by from position k on: the later element replaces the best
\* so far unless the best compares Greater.
RECURSIVE Iterator_max_by(_, _, _)
Iterator_max_by(fitnesses, k, best) ==
    IF k > Len(fitnesses) THEN best
    ELSE LET y == [i |-> k - 1, f |-> fitnesses[k]]
         IN  Iterator_max_by(fitnesses, k + 1,
                             IF evolve_compare(best, y) = "Greater" THEN best ELSE y)

\* The end of evolve: what it prints; unwrap panics on an empty population.
evolve_best(evaluation, population) ==
    LET fitnesses == Evaluation_evaluate(evaluation, population)
    IN  IF Len(fitnesses) = 0 THEN [panic |-> TRUE, i |-> 0, f |-> 0]
        ELSE LET best == Iterator_max_by(fitnesses, 2, [i |-> 0, f |-> fitnesses[1]])
             IN  [panic |-> FALSE, i |-> best.i, f |-> best.f]

-----------------------------------------------------------------------------
(* indicators/alma.rs *)

\* The weights of a period, in thousandths: exp(-(i - m)^2 / (2 s^2)) over
\* their sum, with m = floor(0.85 * (period - 1)) and
\* s = period / floor(period / 1.5), for i = 0 .. period - 1.
Alma_weights(period) ==
    CASE period = 1 -> <<1000>>
      [] period = 2 -> <<531, 469>>
      [] period = 3 -> <<308, 384, 308>>
      [] period = 4 -> <<180, 262, 297, 262>>
      [] period = 5 -> <<59, 145, 249, 298, 249>>

Alma_new(period) ==
    [value |-> 0, weights |-> Alma_weights(period), prices |-> << >>,
     t |-> 0, t1 |-> period - 1]

Alma_maturity(self) == self.t1

\* prices.iter().zip(weights.iter()).map(|(p, w)| p * w).sum(): the pairs up
\* to the end of the shorter of the two.
RECURSIVE ZipSum(_, _, _)
ZipSum(prices, weights, k) ==
    IF k > Min(Len(prices), Len(weights)) THEN 0
    ELSE prices[k] * weights[k] + ZipSum(prices, weights, k + 1)

Reversed(s) == [k \in 1..Len(s) |-> s[Len(s) + 1 - k]]

\* Alma_update pairing the newest price with the first weight.
Alma_update_NewestFirst(self, price) ==
    LET popped == IF Len(self.prices) = self.t1 + 1
                  THEN Tail(self.prices) ELSE self.prices
        prices == Append(popped, price)
    IN  [self EXCEPT
            !.prices = prices,
            !.value = IF self.t >= self.t1
                      THEN ZipSum(Reversed(prices), self.weights, 1) ELSE @,
            !.t = Min(self.t + 1, self.t1)]

Alma_update(self, price) ==
    LET popped == IF Len(self.prices) = self.t1 + 1
                  THEN Tail(self.prices) ELSE self.prices
        prices == Append(popped, price)
    IN  [self EXCEPT
            !.prices = prices,
            !.value = IF self.t >= self.t1
                      THEN ZipSum(prices, self.weights, 1) ELSE @,
            !.t = Min(self.t + 1, self.t1)]

(* The objects before any call. *)

NoMa == ma_call = NoMaCall

NoBacktest == backtesting = << >>

NoEvolve == ga = << >>
NoAlma == alma = << >> /\ alma_fed = << >>

NoGenetics ==
    /\ ctype = "None"
    /\ chrom = << >>
    /\ partner = << >>
    /\ original = << >>
    /\ chrom_call = NoCall
    /\ crossed = {}

NoOptimize ==
    /\ evolution = << >>
    /\ response = NoResponse

NoMath == math_call = NoMathCall

NoStopLoss ==
    /\ basic = BasicStopLoss_new([threshold |-> 0])
    /\ trailing = TrailingStopLoss_new([threshold |-> 0])
    /\ stop_loss_calls = NoCalls

NoStrategy ==
    /\ params = [kind |-> "None"]
    /\ strategy = [kind |-> "None"]
    /\ updates = 0
    /\ filtered = NoFilterCall

NoModifiers ==
    /\ inputs = << >>
    /\ outputs = << >>
    /\ old_outputs = << >>
    /\ comb = [advice1 |-> "None", advice2 |-> "None", result |-> "None"]
    /\ persistence = Persistence_new(0, FALSE)
    /\ mid_trend = MidTrend_new("Current")
    /\ old_mid_trend = OldMidTrend_new(FALSE)
    /\ changed = Changed_new(FALSE)
    /\ old_changed = OldChanged_new(FALSE)

(* Persistence: constructed with any level and flag, then updated. *)

InitPersistence ==
    /\ NoAlma
    /\ under_test = "persistence"
    /\ inputs = << >>
    /\ outputs = << >>
    /\ old_outputs = << >>
    /\ comb = [advice1 |-> "None", advice2 |-> "None", result |-> "None"]
    /\ \E level \in 0..MaxLevel, return_previous \in BOOLEAN :
           persistence = Persistence_new(level, return_previous)
    /\ mid_trend = MidTrend_new("Current")
    /\ old_mid_trend = OldMidTrend_new(FALSE)
    /\ changed = Changed_new(FALSE)
    /\ old_changed = OldChanged_new(FALSE)
    /\ NoStrategy
    /\ NoStopLoss
    /\ NoGenetics
    /\ NoOptimize
    /\ NoMath
    /\ NoMa
    /\ NoBacktest
    /\ NoEvolve

PersistenceCall ==
    /\ under_test = "persistence"
    /\ Len(inputs) < MaxCalls
    /\ \E value \in Advice :
          LET r == Persistence_update(persistence, value)
          IN  /\ persistence' = r.self
              /\ inputs' = Append(inputs, value)
              /\ outputs' = Append(outputs, r.result)
    /\ UNCHANGED <<under_test, old_outputs, comb, mid_trend, old_mid_trend, changed,
                   old_changed>>
    /\ UNCHANGED <<strategyVars, stopLossVars, geneticsVars, optimizeVars, mathVars>>
    /\ UNCHANGED <<maVars, backtestVars, evolveVars, almaVars>>

NextPersistence == PersistenceCall

SpecPersistence == InitPersistence /\ [][NextPersistence]_vars

(* MidTrend (both versions, given the same calls), Changed and combine. *)

InitFilters ==
    /\ NoAlma
    /\ under_test \in {"mid_trend", "changed", "combine"}
    /\ inputs = << >>
    /\ outputs = << >>
    /\ old_outputs = << >>
    /\ comb = [advice1 |-> "None", advice2 |-> "None", result |-> "None"]
    /\ persistence = Persistence_new(0, FALSE)
    /\ IF under_test = "mid_trend"
       THEN \E policy \in MidTrendPolicy :
               /\ mid_trend = MidTrend_new(policy)
               /\ old_mid_trend = OldMidTrend_new(policy = "Ignore")
       ELSE /\ mid_trend = MidTrend_new("Current")
            /\ old_mid_trend = OldMidTrend_new(FALSE)
    /\ IF under_test = "changed"
       THEN \E enabled \in BOOLEAN :
               /\ changed = Changed_new(enabled)
               /\ old_changed = OldChanged_new(enabled)
       ELSE /\ changed = Changed_new(FALSE)
            /\ old_changed = OldChanged_new(FALSE)
    /\ NoStrategy
    /\ NoStopLoss
    /\ NoGenetics
    /\ NoOptimize
    /\ NoMath
    /\ NoMa
    /\ NoBacktest
    /\ NoEvolve

MidTrendCall ==
    /\ under_test = "mid_trend"
    /\ Len(inputs) < MaxFilterCalls
    /\ \E value \in Advice :
          LET r == MidTrend_update(mid_trend, value)
              o == OldMidTrend_update(old_mid_trend, value)
          IN  /\ mid_trend' = r.self
              /\ old_mid_trend' = o.self
              /\ inputs' = Append(inputs, value)
              /\ outputs' = Append(outputs, r.result)
              /\ old_outputs' = Append(old_outputs, o.result)
    /\ UNCHANGED <<under_test, comb, persistence, changed, old_changed>>
    /\ UNCHANGED <<strategyVars, stopLossVars, geneticsVars, optimizeVars, mathVars>>
    /\ UNCHANGED <<maVars, backtestVars, evolveVars, almaVars>>

ChangedCall ==
    /\ under_test = "changed"
    /\ Len(inputs) < MaxFilterCalls
    /\ \E value \in Advice :
          LET r == Changed_update(changed, value)
              o == OldChanged_update(old_changed, value)
          IN  /\ changed' = r.self
              /\ old_changed' = o.self
              /\ inputs' = Append(inputs, value)
              /\ outputs' = Append(outputs, r.result)
              /\ old_outputs' = Append(old_outputs, o.result)
    /\ UNCHANGED <<under_test, comb, persistence, mid_trend, old_mid_trend>>
    /\ UNCHANGED <<strategyVars, stopLossVars, geneticsVars, optimizeVars, mathVars>>
    /\ UNCHANGED <<maVars, backtestVars, evolveVars, almaVars>>

CombineCall ==
    /\ under_test = "combine"
    /\ \E advice1 \in Advice, advice2 \in Advice :
          comb' = [advice1 |-> advice1, advice2 |-> advice2,
                   result |-> combine(advice1, advice2)]
    /\ UNCHANGED <<under_test, inputs, outputs, old_outputs, persistence,
                   mid_trend, old_mid_trend, changed, old_changed>>
    /\ UNCHANGED <<strategyVars, stopLossVars, geneticsVars, optimizeVars, mathVars>>
    /\ UNCHANGED <<maVars, backtestVars, evolveVars, almaVars>>

NextFilters == MidTrendCall \/ ChangedCall \/ CombineCall

SpecFilters == InitFilters /\ [][NextFilters]_vars

(* Sig and SigOsc: constructed from any parameters, then updated candle by
   candle, and constructed anew when the trader restarts after a gap. *)

SigParams ==
    [kind : {"Sig"}, sig : 0..MaxMaturity, persistence : 0..MaxLevel,
     mid_trend_policy : MidTrendPolicy, overflow_checks : BOOLEAN]

SigOscParams ==
    [kind : {"SigOsc"}, sig : 0..MaxMaturity, osc : 0..MaxMaturity,
     osc_filter : {OSC_FILTER_ENFORCE, OSC_FILTER_PREVENT},
     persistence : 0..MaxLevel, mid_trend_policy : MidTrendPolicy,
     overflow_checks : BOOLEAN]

Strategy_new(p) ==
    IF p.kind = "Sig" THEN Sig_new(p, p.overflow_checks)
    ELSE SigOsc_new(p, p.overflow_checks)

\* The maturity sum the constructor subtracts 1 from.
MaturitySum(p) ==
    Max(p.sig, IF p.kind = "SigOsc" THEN p.osc ELSE 0)
        + Max(IF p.mid_trend_policy = "Current" THEN 0 ELSE 1, p.persistence)

\* The build's overflow checks matter only where the subtraction overflows.
InitStrategy ==
    /\ NoAlma
    /\ under_test = "strategy"
    /\ NoModifiers
    /\ NoStopLoss
    /\ NoGenetics
    /\ NoOptimize
    /\ NoMath
    /\ NoMa
    /\ NoBacktest
    /\ NoEvolve
    /\ params \in SigParams \cup SigOscParams
    /\ params.overflow_checks => MaturitySum(params) = 0
    /\ strategy = Strategy_new(params)
    /\ updates = 0
    /\ filtered = NoFilterCall

SigUpdate ==
    /\ under_test = "strategy" /\ params.kind = "Sig"
    /\ strategy # Panicked
    /\ updates < MaxUpdates
    /\ \E advice \in Advice : strategy' = Sig_update(strategy, advice)
    /\ updates' = updates + 1
    /\ UNCHANGED <<under_test, modifierVars, params, filtered, stopLossVars>>
    /\ UNCHANGED <<geneticsVars, optimizeVars, mathVars>>
    /\ UNCHANGED <<maVars, backtestVars, evolveVars, almaVars>>

SigOscUpdate ==
    /\ under_test = "strategy" /\ params.kind = "SigOsc"
    /\ strategy # Panicked
    /\ updates < MaxUpdates
    /\ \E advice \in Advice, overbought \in BOOLEAN, oversold \in BOOLEAN :
          LET sig == Signal_update(strategy.sig, advice)
              osc == Oscillator_update(strategy.osc, overbought, oversold)
              s1 == [strategy EXCEPT !.sig = sig, !.osc = osc]
          IN  /\ strategy' = SigOsc_update(strategy, advice, overbought, oversold)
              /\ filtered' =
                    IF Signal_mature(sig) /\ Oscillator_mature(osc)
                    THEN [called |-> TRUE,
                          osc_filter |-> s1.osc_filter,
                          advice |-> Signal_advice(sig),
                          overbought |-> Oscillator_overbought(osc),
                          oversold |-> Oscillator_oversold(osc),
                          result |-> SigOsc_filter(s1, Signal_advice(sig))]
                    ELSE NoFilterCall
    /\ updates' = updates + 1
    /\ UNCHANGED <<under_test, modifierVars, params, stopLossVars>>
    /\ UNCHANGED <<geneticsVars, optimizeVars, mathVars>>
    /\ UNCHANGED <<maVars, backtestVars, evolveVars, almaVars>>

Restart ==
    /\ under_test = "strategy"
    /\ strategy # Panicked
    /\ updates > 0
    /\ strategy' = Strategy_new(params)
    /\ updates' = 0
    /\ filtered' = NoFilterCall
    /\ UNCHANGED <<under_test, modifierVars, params, stopLossVars>>
    /\ UNCHANGED <<geneticsVars, optimizeVars, mathVars>>
    /\ UNCHANGED <<maVars, backtestVars, evolveVars, almaVars>>

NextStrategy == SigUpdate \/ SigOscUpdate \/ Restart

SpecStrategy == InitStrategy /\ [][NextStrategy]_vars

(* BasicStopLoss and TrailingStopLoss: constructed with any threshold, then
   cleared on a position's entry candle and updated with the candles that
   follow, in any order. *)

\* closes, in tenths
Closes == {899, 900, 901, 920, 950, 1000, 1050}

\* thresholds, in thousandths
Thresholds == {50, 100}

Candles == [close : Closes]

InitStopLoss ==
    /\ NoAlma
    /\ under_test = "stop_loss"
    /\ NoModifiers
    /\ NoStrategy
    /\ NoGenetics
    /\ NoOptimize
    /\ NoMath
    /\ NoMa
    /\ NoBacktest
    /\ NoEvolve
    /\ \E threshold \in Thresholds :
          /\ basic = BasicStopLoss_new([threshold |-> threshold])
          /\ trailing = TrailingStopLoss_new([threshold |-> threshold])
    /\ stop_loss_calls = NoCalls

StopLossClear ==
    /\ under_test = "stop_loss"
    /\ \E candle \in Candles :
          /\ basic' = BasicStopLoss_clear(basic, candle)
          /\ trailing' = TrailingStopLoss_clear(trailing, candle)
          /\ stop_loss_calls' =
                [stop_loss_calls EXCEPT !.cleared = TRUE, !.entry = candle.close,
                                        !.closes = << >>, !.hits = << >>,
                                        !.trailing_hits = << >>]
    /\ UNCHANGED <<under_test, modifierVars, strategyVars, geneticsVars, optimizeVars, mathVars>>
    /\ UNCHANGED <<maVars, backtestVars, evolveVars, almaVars>>

StopLossUpdate ==
    /\ under_test = "stop_loss"
    /\ Len(stop_loss_calls.closes) < MaxStopLossUpdates
    /\ \E candle \in Candles :
          /\ basic' = BasicStopLoss_update(basic, candle)
          /\ trailing' = TrailingStopLoss_update(trailing, candle)
          /\ stop_loss_calls' =
                [stop_loss_calls EXCEPT
                    !.updated = TRUE, !.last = candle.close,
                    !.closes = Append(@, candle.close),
                    !.hits = Append(@, [upside |-> BasicStopLoss_upside_hit(basic'),
                                        downside |-> BasicStopLoss_downside_hit(basic')]),
                    !.trailing_hits =
                        Append(@, [upside |-> TrailingStopLoss_upside_hit(trailing'),
                                   downside |-> TrailingStopLoss_downside_hit(trailing')])]
    /\ UNCHANGED <<under_test, modifierVars, strategyVars, geneticsVars, optimizeVars, mathVars>>
    /\ UNCHANGED <<maVars, backtestVars, evolveVars, almaVars>>

NextStopLoss == StopLossClear \/ StopLossUpdate

SpecStopLoss == InitStopLoss /\ [][NextStopLoss]_vars

(* Chromosomes: a chromosome and a parent of the same type, then one len,
   cross or mutate call, with gene indices up to two past the last gene.
   SigParams has no generator for its sig field in sig.rs, so only its len()
   is called. *)

ChromosomeTypes == {"TraderParams", "SigParams", "SigOscParams", "Individual"}

\* The values a generator can draw.
Draws == 0..MaxDraw
GenRange(field) == {FieldGenerator(field, r) : r \in Draws}

DerivedValues(name) ==
    CASE name = "TraderParams" ->
            [missed_candle_policy : GenRange("missed_candle_policy"),
             stop_loss : GenRange("stop_loss"),
             trail_stop_loss : GenRange("trail_stop_loss"),
             take_profit : GenRange("take_profit")]
      [] name = "S" -> [s0 : GenRange("s0"), s1 : GenRange("s1")]
      [] name = "O" -> [o0 : GenRange("o0")]

ChromosomeValues(type) ==
    CASE type = "SigParams" ->
            [sig : DerivedValues("S"),
             persistence : {gen_persistence(r) : r \in Draws},
             mid_trend_policy : {gen_mid_trend_policy(r) : r \in Draws}]
      [] type = "SigOscParams" ->
            [sig : DerivedValues("S"), osc : DerivedValues("O"),
             osc_filter : {gen_osc_filter(r) : r \in Draws},
             persistence : {gen_persistence(r) : r \in Draws},
             mid_trend_policy : {gen_mid_trend_policy(r) : r \in Draws}]
      [] type = "Individual" ->
            [trader : DerivedValues("TraderParams"), strategy : DerivedValues("S")]
      [] OTHER -> DerivedValues(type)

\* The genes of a chromosome in declaration order, nested sub-chromosomes
\* flattened in place.
DerivedGenes(name, v) == [k \in 1..Len(Fields(name)) |-> v[Fields(name)[k]]]

Genes(type, v) ==
    CASE type = "SigParams" ->
            DerivedGenes("S", v.sig) \o <<v.persistence, v.mid_trend_policy>>
      [] type = "SigOscParams" ->
            DerivedGenes("S", v.sig) \o DerivedGenes("O", v.osc)
                \o <<v.osc_filter, v.persistence, v.mid_trend_policy>>
      [] type = "Individual" ->
            DerivedGenes("TraderParams", v.trader) \o DerivedGenes("S", v.strategy)
      [] OTHER -> DerivedGenes(type, v)

\* What the generator of each gene draws from r, in the order of Genes.
DerivedDraws(name, r) ==
    [k \in 1..Len(Fields(name)) |-> FieldGenerator(Fields(name)[k], r)]

GeneDraws(type, r) ==
    CASE type = "SigOscParams" ->
            DerivedDraws("S", r) \o DerivedDraws("O", r)
                \o <<gen_osc_filter(r), gen_persistence(r), gen_mid_trend_policy(r)>>
      [] type = "Individual" ->
            DerivedDraws("TraderParams", r) \o DerivedDraws("S", r)
      [] OTHER -> DerivedDraws(type, r)

\* Parents that differ from a in every gene, so that every gene a call copies
\* or disturbs shows.
ParentsOf(type, a) ==
    {b \in ChromosomeValues(type) :
        \A k \in 1..Len(Genes(type, a)) : Genes(type, b)[k] # Genes(type, a)[k]}

InitChromosome ==
    /\ NoAlma
    /\ under_test = "chromosome"
    /\ NoModifiers
    /\ NoStrategy
    /\ NoStopLoss
    /\ NoOptimize
    /\ NoMath
    /\ NoMa
    /\ NoBacktest
    /\ NoEvolve
    /\ ctype \in ChromosomeTypes
    /\ chrom \in ChromosomeValues(ctype)
    /\ partner \in ParentsOf(ctype, chrom)
    /\ original = [self |-> chrom, parent |-> partner]
    /\ chrom_call = NoCall
    /\ crossed = {}

LenCall ==
    /\ under_test = "chromosome"
    /\ chrom_call.op = "none"
    /\ chrom_call' = [NoCall EXCEPT !.op = "len", !.self = chrom, !.parent = partner,
                                    !.len = Chromosome_len(ctype)]
    /\ UNCHANGED <<under_test, ctype, chrom, partner, original, crossed>>
    /\ UNCHANGED <<modifierVars, strategyVars, stopLossVars, optimizeVars, mathVars>>
    /\ UNCHANGED <<maVars, backtestVars, evolveVars, almaVars>>

CrossCall ==
    /\ under_test = "chromosome"
    /\ ctype # "SigParams"
    /\ chrom_call.op = "none"
    /\ \E i \in 0..Chromosome_len(ctype) + 1 :
          LET c == Chromosome_cross(ctype, chrom, partner, i)
          IN  /\ chrom' = c.self
              /\ partner' = c.parent
              /\ chrom_call' = [NoCall EXCEPT !.op = "cross", !.i = i, !.self = chrom,
                                              !.parent = partner, !.panic = c.panic]
              /\ crossed' = IF c.panic THEN crossed ELSE crossed \cup {i}
    /\ UNCHANGED <<under_test, ctype, original>>
    /\ UNCHANGED <<modifierVars, strategyVars, stopLossVars, optimizeVars, mathVars>>
    /\ UNCHANGED <<maVars, backtestVars, evolveVars, almaVars>>

MutateCall ==
    /\ under_test = "chromosome"
    /\ ctype # "SigParams"
    /\ chrom_call.op = "none"
    /\ \E i \in 0..Chromosome_len(ctype) + 1, r \in Draws :
          LET m == Chromosome_mutate(ctype, chrom, r, i)
          IN  /\ chrom' = m.self
              /\ chrom_call' = [NoCall EXCEPT !.op = "mutate", !.i = i, !.r = r,
                                              !.self = chrom, !.parent = partner,
                                              !.panic = m.panic]
    /\ UNCHANGED <<under_test, ctype, partner, original, crossed>>
    /\ UNCHANGED <<modifierVars, strategyVars, stopLossVars, optimizeVars, mathVars>>
    /\ UNCHANGED <<maVars, backtestVars, evolveVars, almaVars>>

NextChromosome == LenCall \/ CrossCall \/ MutateCall

SpecChromosome == InitChromosome /\ [][NextChromosome]_vars

(* Gene operations: two generated SigOscParams, then cross calls between
   them and mutate calls on the first, in any number and order, each with a
   gene index in range. *)

InitGeneOps ==
    /\ NoAlma
    /\ under_test = "gene_ops"
    /\ NoModifiers
    /\ NoStrategy
    /\ NoStopLoss
    /\ NoOptimize
    /\ NoMath
    /\ NoMa
    /\ NoBacktest
    /\ NoEvolve
    /\ ctype = "SigOscParams"
    /\ chrom \in ChromosomeValues(ctype)
    /\ partner \in ChromosomeValues(ctype)
    /\ original = << >>
    /\ chrom_call = NoCall
    /\ crossed = {}

GeneCross ==
    /\ under_test = "gene_ops"
    /\ \E i \in 0..(SigOscParams_len - 1) :
          LET c == SigOscParams_cross(chrom, partner, i)
          IN  /\ chrom' = c.self
              /\ partner' = c.parent
    /\ chrom_call' = [NoCall EXCEPT !.op = "cross"]
    /\ UNCHANGED <<under_test, ctype, original, crossed>>
    /\ UNCHANGED <<modifierVars, strategyVars, stopLossVars, optimizeVars, mathVars>>
    /\ UNCHANGED <<maVars, backtestVars, evolveVars, almaVars>>

GeneMutate ==
    /\ under_test = "gene_ops"
    /\ \E i \in 0..(SigOscParams_len - 1), r \in Draws :
          chrom' = SigOscParams_mutate(chrom, r, i).self
    /\ chrom_call' = [NoCall EXCEPT !.op = "mutate"]
    /\ UNCHANGED <<under_test, ctype, partner, original, crossed>>
    /\ UNCHANGED <<modifierVars, strategyVars, stopLossVars, optimizeVars, mathVars>>
    /\ UNCHANGED <<maVars, backtestVars, evolveVars, almaVars>>

NextGeneOps == GeneCross \/ GeneMutate

SpecGeneOps == InitGeneOps /\ [][NextGeneOps]_vars

(* Crossover of every gene: a chromosome and a parent of the same type, then
   cross called once per gene index, in any order. *)

InitCrossEvery ==
    /\ NoAlma
    /\ under_test = "cross_every"
    /\ NoModifiers
    /\ NoStrategy
    /\ NoStopLoss
    /\ NoOptimize
    /\ NoMath
    /\ NoMa
    /\ NoBacktest
    /\ NoEvolve
    /\ ctype \in ChromosomeTypes \ {"SigParams"}
    /\ chrom \in ChromosomeValues(ctype)
    /\ partner \in ParentsOf(ctype, chrom)
    /\ original = [self |-> chrom, parent |-> partner]
    /\ chrom_call = NoCall
    /\ crossed = {}

CrossNextGene ==
    /\ under_test = "cross_every"
    /\ \E i \in (0..Chromosome_len(ctype) - 1) \ crossed :
          LET c == Chromosome_cross(ctype, chrom, partner, i)
          IN  /\ ~c.panic
              /\ chrom' = c.self
              /\ partner' = c.parent
              /\ crossed' = crossed \cup {i}
    /\ UNCHANGED <<under_test, ctype, original, chrom_call>>
    /\ UNCHANGED <<modifierVars, strategyVars, stopLossVars, optimizeVars, mathVars>>
    /\ UNCHANGED <<maVars, backtestVars, evolveVars, almaVars>>

NextCrossEvery == CrossNextGene

SpecCrossEvery == InitCrossEvery /\ [][NextCrossEvery]_vars

(* The optimize route: a request and the generations evolved for it, then
   the response. *)

\* The fitnesses of the individuals.
Fitnesses == {1, 2}

\* Halls of fame of up to n individuals, best first.
HallsOfFame(n) ==
    UNION {{h \in [1..k -> Fitnesses] : \A i \in 1..k - 1 : h[i] >= h[i + 1]} :
           k \in 0..n}

\* Sequences of up to n generations.
GenerationSeqs(n) ==
    UNION {[1..k -> HallsOfFame(MaxHallOfFame)] : k \in 0..n}

InitOptimize ==
    /\ NoAlma
    /\ under_test = "optimize"
    /\ NoModifiers
    /\ NoStrategy
    /\ NoStopLoss
    /\ NoGenetics
    /\ NoMath
    /\ NoMa
    /\ NoBacktest
    /\ NoEvolve
    /\ \E hall_of_fame_size \in 0..MaxHallOfFame,
          generations \in GenerationSeqs(MaxGenerations) :
          evolution = [args |-> [hall_of_fame_size |-> hall_of_fame_size],
                       evolved |-> [generations |-> generations, seed |-> 1],
                       processed |-> FALSE]
    /\ response = NoResponse

Process ==
    /\ under_test = "optimize"
    /\ ~evolution.processed
    /\ response' = process(evolution.args, evolution.evolved)
    /\ evolution' = [evolution EXCEPT !.processed = TRUE]
    /\ UNCHANGED <<under_test, modifierVars, strategyVars, stopLossVars,
                   geneticsVars, mathVars>>
    /\ UNCHANGED <<maVars, backtestVars, evolveVars, almaVars>>

NextOptimize == Process

SpecOptimize == InitOptimize /\ [][NextOptimize]_vars

(* math.rs: floor_multiple and ceil_multiple called with any value and
   multiple, a zero multiple included. *)

InitMath ==
    /\ NoAlma
    /\ under_test = "math"
    /\ NoModifiers
    /\ NoStrategy
    /\ NoStopLoss
    /\ NoGenetics
    /\ NoOptimize
    /\ NoMa
    /\ NoBacktest
    /\ NoEvolve
    /\ math_call = NoMathCall

FloorMultiple ==
    /\ under_test = "math"
    /\ \E value \in 0..MaxValue, multiple \in 0..MaxMultiple :
          LET f == floor_multiple(value, multiple)
          IN  math_call' = [fn |-> "floor_multiple", value |-> value,
                            multiple |-> multiple, panic |-> f.panic,
                            result |-> f.result]
    /\ UNCHANGED <<under_test, modifierVars, strategyVars, stopLossVars,
                   geneticsVars, optimizeVars>>
    /\ UNCHANGED <<maVars, backtestVars, evolveVars, almaVars>>

CeilMultiple ==
    /\ under_test = "math"
    /\ \E value \in 0..MaxValue, multiple \in 0..MaxMultiple :
          LET c == ceil_multiple(value, multiple)
          IN  math_call' = [fn |-> "ceil_multiple", value |-> value,
                            multiple |-> multiple, panic |-> c.panic,
                            result |-> c.result]
    /\ UNCHANGED <<under_test, modifierVars, strategyVars, stopLossVars,
                   geneticsVars, optimizeVars>>
    /\ UNCHANGED <<maVars, backtestVars, evolveVars, almaVars>>

NextMath == FloorMultiple \/ CeilMultiple

SpecMath == InitMath /\ [][NextMath]_vars

(* The moving-average tags: one call of mamacx, ma_to_str or str_to_ma with
   any tag or name, known or not. *)

MaNames == {"alma", "dema", "ema", "ema2", "kama", "sma", "smma"}

\* The seven tags, the tag after each of them, and 0.
MaTags ==
    LET known == {adler32(name) : name \in MaNames}
    IN  known \cup {tag + 1 : tag \in known} \cup {0}

\* The seven names and some others.
MaRepresentations == MaNames \cup {"", "EMA", "wma"}

InitMa ==
    /\ NoAlma
    /\ under_test = "ma"
    /\ NoModifiers
    /\ NoStrategy
    /\ NoStopLoss
    /\ NoGenetics
    /\ NoOptimize
    /\ NoMath
    /\ NoBacktest
    /\ NoEvolve
    /\ ma_call = NoMaCall

Mamacx ==
    /\ under_test = "ma"
    /\ ma_call.fn = "none"
    /\ \E short_ma \in MaTags, long_ma \in MaTags,
          short_period \in 1..MaxPeriod, long_period \in 1..MaxPeriod :
          LET info == [short_ma |-> short_ma, long_ma |-> long_ma,
                       short_period |-> short_period, long_period |-> long_period]
              m == mamacx(info)
          IN  ma_call' = [NoMaCall EXCEPT !.fn = "mamacx", !.info = info,
                                          !.panic = m.panic, !.strategy = m.strategy]
    /\ UNCHANGED <<under_test, modifierVars, strategyVars, stopLossVars,
                   geneticsVars, optimizeVars, mathVars, backtestVars, evolveVars,
                   almaVars>>

MaToStr ==
    /\ under_test = "ma"
    /\ ma_call.fn = "none"
    /\ \E value \in MaTags :
          LET m == ma_to_str(value)
          IN  ma_call' = [NoMaCall EXCEPT !.fn = "ma_to_str", !.value = value,
                                          !.panic = m.panic, !.str = m.result]
    /\ UNCHANGED <<under_test, modifierVars, strategyVars, stopLossVars,
                   geneticsVars, optimizeVars, mathVars, backtestVars, evolveVars,
                   almaVars>>

StrToMa ==
    /\ under_test = "ma"
    /\ ma_call.fn = "none"
    /\ \E representation \in MaRepresentations :
          LET m == str_to_ma(representation)
          IN  ma_call' = [NoMaCall EXCEPT !.fn = "str_to_ma",
                                          !.representation = representation,
                                          !.panic = m.panic, !.tag = m.result]
    /\ UNCHANGED <<under_test, modifierVars, strategyVars, stopLossVars,
                   geneticsVars, optimizeVars, mathVars, backtestVars, evolveVars,
                   almaVars>>

NextMa == Mamacx \/ MaToStr \/ StrToMa

SpecMa == InitMa /\ [][NextMa]_vars

(* The backtest route: a request for some symbols, with a body that parses or
   not, against a store whose lookups succeed or fail. *)

Symbols == {"eth-btc", "ltc-btc"}

SymbolSeqs == UNION {[1..k -> Symbols] : k \in 0..MaxSymbols}

Stores ==
    [candles : [Symbols -> BOOLEAN], exchange_info : BOOLEAN,
     stats_candles : [Symbols -> BOOLEAN], fiat_candles : BOOLEAN]

InitBacktest ==
    /\ NoAlma
    /\ under_test = "backtest"
    /\ NoModifiers
    /\ NoStrategy
    /\ NoStopLoss
    /\ NoGenetics
    /\ NoOptimize
    /\ NoMath
    /\ NoMa
    /\ NoEvolve
    /\ \E symbols \in SymbolSeqs, json \in BOOLEAN, store \in Stores :
          backtesting = [bytes |-> [json |-> json, symbols |-> symbols],
                         store |-> store, processed |-> FALSE,
                         outcome |-> "none", symbol_stats |-> {}]

BacktestPost ==
    /\ under_test = "backtest"
    /\ ~backtesting.processed
    /\ LET r == Backtest_process(backtesting.bytes, backtesting.store)
       IN  backtesting' = [backtesting EXCEPT !.processed = TRUE,
                                              !.outcome = r.outcome,
                                              !.symbol_stats = r.symbol_stats]
    /\ UNCHANGED <<under_test, modifierVars, strategyVars, stopLossVars,
                   geneticsVars, optimizeVars, mathVars, maVars, evolveVars,
                   almaVars>>

NextBacktest == BacktestPost

SpecBacktest == InitBacktest /\ [][NextBacktest]_vars

(* evolve: the population size is tested and the population generated, then
   run_generation is called once per generation, then the best individual of
   the last population is printed.  The evaluation, the population size and
   the number of generations are any. *)

Individuals == {1, 2}

\* What the generator yields for one pair of parents.
PairDraws == [swap : BOOLEAN, m1 : {0} \cup Individuals, m2 : {0} \cup Individuals]

InitEvolve ==
    /\ NoAlma
    /\ under_test = "evolve"
    /\ NoModifiers
    /\ NoStrategy
    /\ NoStopLoss
    /\ NoGenetics
    /\ NoOptimize
    /\ NoMath
    /\ NoMa
    /\ NoBacktest
    /\ \E evaluation \in [Individuals -> Fitnesses],
          population_size \in 1..MaxPopulation,
          generations \in 1..MaxGenerations :
          ga = [evaluation |-> evaluation, population_size |-> population_size,
                generations |-> generations, pc |-> "start", i |-> 0,
                population |-> << >>, generated |-> 0, selected_all |-> TRUE,
                best |-> [i |-> 0, f |-> 0]]

EvolveStart ==
    /\ under_test = "evolve"
    /\ ga.pc = "start"
    /\ \E generated \in [1..ga.population_size -> Individuals] :
          LET g == evolve_generate(ga.population_size, generated)
          IN  ga' = IF g.panic THEN [ga EXCEPT !.pc = "panicked"]
                    ELSE [ga EXCEPT !.pc = "loop", !.population = g.population,
                                    !.generated = Len(g.population)]
    /\ UNCHANGED <<under_test, modifierVars, strategyVars, stopLossVars,
                   geneticsVars, optimizeVars, mathVars, maVars, backtestVars,
                   almaVars>>

RunGeneration ==
    /\ under_test = "evolve"
    /\ ga.pc = "loop"
    /\ ga.i < ga.generations
    /\ \E returned \in 0..Len(ga.population) :
       \E pairs \in [1..returned \div 2 -> PairDraws] :
          LET rng == [returned |-> returned, pairs |-> pairs]
              g == run_generation(ga.evaluation, ga.population, rng)
              all == ga.selected_all /\ returned = Len(ga.population)
          IN  ga' = IF g.panic
                    THEN [ga EXCEPT !.pc = "panicked", !.selected_all = all]
                    ELSE [ga EXCEPT !.i = ga.i + 1, !.population = g.offspring,
                                    !.selected_all = all]
    /\ UNCHANGED <<under_test, modifierVars, strategyVars, stopLossVars,
                   geneticsVars, optimizeVars, mathVars, maVars, backtestVars,
                   almaVars>>

EvolveBest ==
    /\ under_test = "evolve"
    /\ ga.pc = "loop"
    /\ ga.i = ga.generations
    /\ LET b == evolve_best(ga.evaluation, ga.population)
       IN  ga' = IF b.panic THEN [ga EXCEPT !.pc = "panicked"]
                 ELSE [ga EXCEPT !.pc = "done", !.best = [i |-> b.i, f |-> b.f]]
    /\ UNCHANGED <<under_test, modifierVars, strategyVars, stopLossVars,
                   geneticsVars, optimizeVars, mathVars, maVars, backtestVars,
                   almaVars>>

NextEvolve == EvolveStart \/ RunGeneration \/ EvolveBest

SpecEvolve == InitEvolve /\ [][NextEvolve]_vars

-----------------------------------------------------------------------------
(* Alma: constructed with a period, then updated with prices. *)

AlmaPrices == {1, 2, 5}

InitAlma ==
    /\ under_test = "alma"
    /\ NoModifiers
    /\ NoStrategy
    /\ NoStopLoss
    /\ NoGenetics
    /\ NoOptimize
    /\ NoMath
    /\ NoMa
    /\ NoBacktest
    /\ NoEvolve
    /\ \E period \in 1..MaxAlmaPeriod : alma = Alma_new(period)
    /\ alma_fed = << >>

AlmaUpdate ==
    /\ under_test = "alma"
    /\ Len(alma_fed) < MaxAlmaUpdates
    /\ \E price \in AlmaPrices :
          /\ alma' = Alma_update(alma, price)
          /\ alma_fed' = Append(alma_fed, price)
    /\ UNCHANGED <<under_test, modifierVars, strategyVars, stopLossVars,
                   geneticsVars, optimizeVars, mathVars, maVars, backtestVars,
                   evolveVars>>

NextAlma == AlmaUpdate

SpecAlma == InitAlma /\ [][NextAlma]_vars


-----------------------------------------------------------------------------
(* combine *)

\* C1: combine(a, b) is None whenever a or b is None, a when a = b, and
\* Liquidate when both are non-None and different, for all 16 pairs.
C1_Combine ==
    under_test = "combine" =>
        LET a == comb.advice1
            b == comb.advice2
        IN  /\ (a = "None" \/ b = "None") => comb.result = "None"
            /\ (a # "None" /\ b # "None" /\ a = b) => comb.result = a
            /\ (a # "None" /\ b # "None" /\ a # b) => comb.result = "Liquidate"

C1_Witness ==
    /\ under_test = "combine"
    /\ comb = [advice1 |-> "Long", advice2 |-> "Short", result |-> "Liquidate"]

-----------------------------------------------------------------------------
(* Persistence *)

Calls == 1..Len(outputs)

\* The input of call j and the level inputs before it all exist and equal v.
HeldFor(j, level, v) ==
    /\ j > level
    /\ \A i \in (j - level)..j : inputs[i] = v

\* Call j is the first call or its input differs from the one before.
InputChangesAt(j) == j = 1 \/ inputs[j] # inputs[j - 1]

\* C2: Persistence(k >= 1, false) returns a non-None advice v on a call iff
\* that call's input and the k inputs before it are all v; so it returns None
\* on the k calls starting at any change of the input.
C2_PersistenceDebounce ==
    (under_test = "persistence" /\ persistence.level >= 1
        /\ ~persistence.return_previous) =>
        /\ \A j \in Calls : \A v \in Advice \ {"None"} :
              outputs[j] = v <=> HeldFor(j, persistence.level, v)
        /\ \A j \in Calls : outputs[j] \in Advice
        /\ \A j \in Calls : InputChangesAt(j) =>
              \A i \in j..Min(j + persistence.level - 1, Len(outputs)) :
                  outputs[i] = "None"

C2_Witness ==
    /\ under_test = "persistence"
    /\ persistence.level = 2 /\ ~persistence.return_previous
    /\ inputs = <<"Long", "Long", "Long", "Short", "Short", "Short", "Short">>
    /\ outputs = <<"None", "None", "Long", "None", "None", "Short", "Short">>

\* C3: Persistence(0, return_previous) is the identity for both values of
\* return_previous: every call returns its input.
C3_PersistenceZeroIdentity ==
    (under_test = "persistence" /\ persistence.level = 0) => outputs = inputs

C3_Witness ==
    /\ under_test = "persistence"
    /\ persistence.level = 0 /\ persistence.return_previous
    /\ inputs = <<"Long", "Short", "Short", "None", "Liquidate">>
    /\ outputs = inputs

\* Call j confirms its input: the input has held for level + 1 calls.
Confirms(j, level) == HeldFor(j, level, inputs[j])

\* The value returned by the last confirming call among the first j calls,
\* None when there is none.
LastConfirmed(j, level) ==
    LET confirming == {i \in 1..j : Confirms(i, level)}
    IN  IF confirming = {} THEN "None"
        ELSE outputs[CHOOSE i \in confirming : \A h \in confirming : h <= i]

\* C4: Persistence(level >= 1, true) returns, on every call that is still
\* debouncing, the last confirmed advice (the value most recently returned
\* after holding level + 1 calls), and None when nothing was confirmed yet.
C4_PersistenceReturnPrevious ==
    (under_test = "persistence" /\ persistence.level >= 1
        /\ persistence.return_previous) =>
        \A j \in Calls :
            /\ Confirms(j, persistence.level) => outputs[j] = inputs[j]
            /\ ~Confirms(j, persistence.level) =>
                   outputs[j] = LastConfirmed(j - 1, persistence.level)

C4_Witness ==
    /\ under_test = "persistence"
    /\ persistence.level = 2 /\ persistence.return_previous
    /\ inputs = <<"Long", "Long", "Long", "Short", "Short", "Short">>
    /\ outputs = <<"None", "None", "Long", "Long", "Long", "Short">>

-----------------------------------------------------------------------------
(* MidTrend *)

\* C5: MidTrend with policy Current, and with policy Previous, is the
\* identity: every call returns its input and leaves previous and enabled
\* as they were.
C5_MidTrendIdentity ==
    (under_test = "mid_trend" /\ mid_trend.policy \in {"Current", "Previous"}) =>
        /\ outputs = inputs
        /\ mid_trend = MidTrend_new(mid_trend.policy)

C5_Witness ==
    /\ under_test = "mid_trend"
    /\ mid_trend.policy = "Previous"
    /\ inputs = <<"Long", "Long", "Short">>
    /\ outputs = inputs

\* The calls whose input differs from the input of the first call.
Differing == {j \in 1..Len(inputs) : inputs[j] # inputs[1]}

\* results is what MidTrend(Ignore) is to return for the inputs: None before
\* the first differing call, the input from that call on.
IgnoreResults(results) ==
    \A j \in 1..Len(results) :
        results[j] = IF \E f \in Differing : f <= j THEN inputs[j] ELSE "None"

\* C6: MidTrend(Ignore) returns None up to, not including, the first call
\* whose input differs from the first call's input; that call returns its
\* input and disables the filter; every later call returns its input.
C6_MidTrendIgnore ==
    (under_test = "mid_trend" /\ mid_trend.policy = "Ignore") =>
        /\ Len(outputs) = Len(inputs) /\ IgnoreResults(outputs)
        /\ Len(old_outputs) = Len(inputs) /\ IgnoreResults(old_outputs)
        /\ mid_trend.enabled <=> Differing = {}
        /\ old_mid_trend.ignore <=> Differing = {}

C6_Witness ==
    /\ under_test = "mid_trend"
    /\ mid_trend.policy = "Ignore" /\ ~mid_trend.enabled
    /\ inputs = <<"Long", "Long", "Short", "Long", "Long">>
    /\ outputs = <<"None", "None", "Short", "Long", "Long">>

-----------------------------------------------------------------------------
(* Changed *)

\* The input of the call before call j; the initial previous for the first.
InputBefore(j) == IF j = 1 THEN "None" ELSE inputs[j - 1]

\* C7 as stated: Changed(true) returns its input when that input differs from
\* the value the previous call returned, and None otherwise.
C7_ChangedAgainstEmission ==
    (under_test = "changed" /\ changed.enabled) =>
        \A j \in 2..Len(outputs) :
            outputs[j] = IF inputs[j] # outputs[j - 1] THEN inputs[j] ELSE "None"

\* C7 (amended): Changed(true) returns its input exactly when that input
\* differs from the input of the previous call (None before the first call),
\* and None otherwise.
C7_ChangedAgainstInput ==
    (under_test = "changed" /\ changed.enabled) =>
        \A j \in Calls :
            outputs[j] = IF inputs[j] # InputBefore(j) THEN inputs[j] ELSE "None"

C7_Witness ==
    /\ under_test = "changed" /\ changed.enabled
    /\ inputs = <<"Long", "Long", "Long", "Short">>
    /\ outputs = <<"Long", "None", "None", "Short">>

-----------------------------------------------------------------------------
(* Sig and SigOsc *)

Constructed == under_test = "strategy" /\ strategy # Panicked

\* mature() of the strategy under test.
Strategy_mature == U32_le(strategy.t1, strategy.t)

\* C8: for Sig and SigOsc, in every reachable state, advice() != None implies
\* mature(); a freshly constructed or restarted one reports advice None until
\* it has received at least maturity() updates.
C8_AdviceImpliesMature ==
    Constructed =>
        /\ strategy.advice # "None" => Strategy_mature
        /\ ~U32_le(strategy.t1, U32(updates)) => strategy.advice = "None"

\* C8 where the maturity sum is at least 1, so that t1 is sum - 1.
C8_AdviceImpliesMature_SumPositive ==
    (Constructed /\ MaturitySum(params) >= 1) =>
        /\ strategy.advice # "None" => Strategy_mature
        /\ updates < MaturitySum(params) - 1 => strategy.advice = "None"

\* C9: after n update calls t = min(n, t1), where t1 = (max of the
\* constituent maturities) + max(mid_trend.maturity, persistence.maturity) - 1;
\* so 0 <= t <= t1, mature() is false for n < t1 and true for every n >= t1.
C9_CounterSaturates ==
    Constructed =>
        LET t1 == MaturitySum(params) - 1
        IN  /\ strategy.t1 = U32(t1)
            /\ strategy.t = U32(Min(updates, t1))
            /\ 0 <= Min(updates, t1) /\ U32_le(strategy.t, strategy.t1)
            /\ Strategy_mature <=> updates >= t1

\* C9 where the maturity sum is at least 1.
C9_CounterSaturates_SumPositive ==
    (Constructed /\ MaturitySum(params) >= 1) =>
        LET t1 == MaturitySum(params) - 1
        IN  /\ strategy.t1 = U32(t1)
            /\ strategy.t = U32(Min(updates, t1))
            /\ U32_le(strategy.t, strategy.t1)
            /\ Strategy_mature <=> updates >= t1

-----------------------------------------------------------------------------
(* BasicStopLoss *)

\* C10: after clear(entry candle) and any number of update calls, upside_hit()
\* is true exactly when the close of the most recent update is
\* <= entry_close * (1 - threshold), downside_hit() exactly when it is
\* >= entry_close * (1 + threshold), and update never changes the entry
\* reference.
C10_BasicStopLossHits ==
    (under_test = "stop_loss" /\ stop_loss_calls.cleared) =>
        LET c == stop_loss_calls
        IN  /\ basic.close_at_position = c.entry
            /\ c.updated =>
                  /\ BasicStopLoss_upside_hit(basic)
                        <=> c.last * 1000 <= c.entry * (1000 - basic.threshold)
                  /\ BasicStopLoss_downside_hit(basic)
                        <=> c.last * 1000 >= c.entry * (1000 + basic.threshold)
            /\ \A j \in 1..Len(c.hits) :
                  /\ c.hits[j].upside
                        <=> c.closes[j] * 1000 <= c.entry * (1000 - basic.threshold)
                  /\ c.hits[j].downside
                        <=> c.closes[j] * 1000 >= c.entry * (1000 + basic.threshold)

\* The example: threshold 0.1, entry close 100, closes 95, 92, 90.1, 89.9.
C10_Witness ==
    /\ under_test = "stop_loss"
    /\ basic.threshold = 100
    /\ stop_loss_calls.cleared /\ stop_loss_calls.entry = 1000
    /\ stop_loss_calls.closes = <<950, 920, 901, 899>>
    /\ stop_loss_calls.hits = <<[upside |-> FALSE, downside |-> FALSE],
                                [upside |-> FALSE, downside |-> FALSE],
                                [upside |-> FALSE, downside |-> FALSE],
                                [upside |-> TRUE, downside |-> FALSE]>>
    /\ BasicStopLoss_upside_hit(basic)

\* The highest and the lowest of the clearing close and the first j closes
\* after it.
RECURSIVE HighestOf(_, _)
HighestOf(closes, j) ==
    IF j = 0 THEN stop_loss_calls.entry
    ELSE Max(HighestOf(closes, j - 1), closes[j])

RECURSIVE LowestOf(_, _)
LowestOf(closes, j) ==
    IF j = 0 THEN stop_loss_calls.entry
    ELSE Min(LowestOf(closes, j - 1), closes[j])

\* C11: after clear(c0) followed by update calls with closes c1..cn, n >= 1,
\* upside_hit() is true exactly when cn <= max(c0..cn) * (1 - threshold) and
\* downside_hit() exactly when cn >= min(c0..cn) * (1 + threshold); clear
\* resets both extremes to the clearing candle's close.
C11_TrailingStopLossHits ==
    (under_test = "stop_loss" /\ stop_loss_calls.cleared) =>
        LET c == stop_loss_calls
            n == Len(c.closes)
        IN  /\ trailing.highest_close_since_position = HighestOf(c.closes, n)
            /\ trailing.lowest_close_since_position = LowestOf(c.closes, n)
            /\ n >= 1 =>
                  /\ TrailingStopLoss_upside_hit(trailing)
                        <=> c.closes[n] * 1000
                                <= HighestOf(c.closes, n) * (1000 - trailing.threshold)
                  /\ TrailingStopLoss_downside_hit(trailing)
                        <=> c.closes[n] * 1000
                                >= LowestOf(c.closes, n) * (1000 + trailing.threshold)
            /\ \A j \in 1..n :
                  /\ c.trailing_hits[j].upside
                        <=> c.closes[j] * 1000
                                <= HighestOf(c.closes, j) * (1000 - trailing.threshold)
                  /\ c.trailing_hits[j].downside
                        <=> c.closes[j] * 1000
                                >= LowestOf(c.closes, j) * (1000 + trailing.threshold)

\* Threshold 0.1, cleared at 100: the close rises to 105 and falls back to
\* 92, which is below 105 * 0.9 = 94.5 though above the entry's 90, so the
\* trailing stop-loss hits where the basic one does not.
C11_Witness ==
    /\ under_test = "stop_loss"
    /\ trailing.threshold = 100
    /\ stop_loss_calls.cleared /\ stop_loss_calls.entry = 1000
    /\ stop_loss_calls.closes = <<1050, 920>>
    /\ trailing.highest_close_since_position = 1050
    /\ trailing.lowest_close_since_position = 920
    /\ TrailingStopLoss_upside_hit(trailing)
    /\ ~TrailingStopLoss_downside_hit(trailing)
    /\ ~BasicStopLoss_upside_hit(basic)

-----------------------------------------------------------------------------
(* Chromosomes *)

\* C12: for every chromosome type, len() equals the total gene count
\* including nested sub-chromosomes: Individual<T>::len() =
\* TraderParams::len() + T::len(), SigOscParams<S,O>::len() =
\* S::len() + O::len() + 3, and the derived SigParams<S> has
\* len() = S::len() + 2.
C12_LenCountsNestedGenes ==
    (under_test = "chromosome" /\ chrom_call.op = "len") =>
        /\ chrom_call.len = Len(Genes(ctype, chrom))
        /\ ctype = "Individual" =>
              chrom_call.len = Chromosome_len("TraderParams") + Chromosome_len("S")
        /\ ctype = "SigOscParams" =>
              chrom_call.len = Chromosome_len("S") + Chromosome_len("O") + 3
        /\ ctype = "SigParams" => chrom_call.len = Chromosome_len("S") + 2

\* C12 holds for every type whose nested sub-chromosomes are dispatched to by
\* hand (Individual, SigOscParams) and for derived structs of plain fields.
C12_LenCountsNestedGenes_NotDerivedNested ==
    (under_test = "chromosome" /\ chrom_call.op = "len" /\ ctype # "SigParams") =>
        /\ chrom_call.len = Len(Genes(ctype, chrom))
        /\ ctype = "Individual" =>
              chrom_call.len = Chromosome_len("TraderParams") + Chromosome_len("S")
        /\ ctype = "SigOscParams" =>
              chrom_call.len = Chromosome_len("S") + Chromosome_len("O") + 3

\* The last call was cross or mutate with an index below len() / from len() on.
InRange(op) ==
    /\ under_test = "chromosome"
    /\ chrom_call.op = op
    /\ chrom_call.i < Chromosome_len(ctype)

OutOfRange ==
    /\ under_test = "chromosome"
    /\ chrom_call.op \in {"cross", "mutate"}
    /\ chrom_call.i >= Chromosome_len(ctype)

\* Gene i (from 0) of self is what `value` was, every other gene of self is
\* what it was before the call.
OnlyGeneSet(i, value) ==
    LET before == Genes(ctype, chrom_call.self)
        after == Genes(ctype, chrom)
    IN  /\ Len(after) = Len(before)
        /\ after[i + 1] = value
        /\ \A k \in 1..Len(before) : k # i + 1 => after[k] = before[k]

\* C13: for every chromosome type and every index i in 0..len(): after
\* a.cross(parent, i), gene i of a equals the value gene i of parent had
\* before the call, every other gene of a is unchanged, and parent is
\* unchanged.
C13_CrossCopiesGene ==
    InRange("cross") =>
        /\ OnlyGeneSet(chrom_call.i, Genes(ctype, chrom_call.parent)[chrom_call.i + 1])
        /\ partner = chrom_call.parent

\* What C13 says of self holds for every type: only the parent is disturbed.
C13_CrossCopiesGene_SelfOnly ==
    InRange("cross") =>
        OnlyGeneSet(chrom_call.i, Genes(ctype, chrom_call.parent)[chrom_call.i + 1])

\* C14: for any two chromosomes A and B of the same type, calling
\* A.cross(B, i) once for every i in 0..len(), in any order, leaves A equal
\* to the original B in every gene.
C14_CrossEveryGene ==
    (under_test = "cross_every" /\ crossed = 0..Chromosome_len(ctype) - 1) =>
        /\ Genes(ctype, chrom) = Genes(ctype, original.parent)
        /\ chrom = original.parent

\* A SigOscParams crossed in every gene: it is what its parent was, and its
\* parent, whose own genes were swapped, is no longer.
C14_Witness ==
    /\ under_test = "cross_every"
    /\ ctype = "SigOscParams"
    /\ crossed = 0..Chromosome_len(ctype) - 1
    /\ chrom = original.parent
    /\ chrom # original.self
    /\ partner # original.parent

C16_IndexOutOfBounds ==
    OutOfRange =>
        /\ chrom_call.panic
        /\ chrom = chrom_call.self
        /\ partner = chrom_call.parent

\* An Individual crossed with index len(), which its strategy is handed as
\* its own len().
C16_Witness ==
    /\ OutOfRange
    /\ chrom_call.panic
    /\ ctype = "Individual" /\ chrom_call.op = "cross"
    /\ chrom_call.i = Chromosome_len(ctype)
    /\ chrom = original.self

-----------------------------------------------------------------------------
(* The optimize response *)

\* Rank i (from 1) of generation g (from 1) is within the hall-of-fame size
\* and strictly above the fitness of that rank in every earlier generation
\* that has the rank.
RankImproved(generations, hall_of_fame_size, g, i) ==
    /\ i <= Min(hall_of_fame_size, Len(generations[g]))
    /\ \A h \in 1..g - 1 :
          Len(generations[h]) >= i => generations[g][i] > generations[h][i]

GenerationKept(generations, hall_of_fame_size, g) ==
    \E i \in 1..Len(generations[g]) :
        RankImproved(generations, hall_of_fame_size, g, i)

\* C18: generation g is kept in the optimize response if and only if at
\* least one hall-of-fame rank i < min(hall_of_fame_size, |hall_of_fame of g|)
\* has a fitness strictly greater than the best fitness recorded at rank i
\* over all earlier generations, a rank with no earlier record counting as
\* improved; the other generations are elided, and the kept ones appear in
\* original order, each with its original index as nr.
C18_GenerationsKept ==
    (under_test = "optimize" /\ evolution.processed) =>
        LET generations == evolution.evolved.generations
            size == evolution.args.hall_of_fame_size
            kept == response.generations
        IN  /\ \A g \in 1..Len(generations) :
                  GenerationKept(generations, size, g)
                      <=> \E k \in 1..Len(kept) : kept[k].nr = g - 1
            /\ \A k \in 1..Len(kept) :
                  /\ kept[k].nr + 1 \in 1..Len(generations)
                  /\ kept[k].hall_of_fame = generations[kept[k].nr + 1]
            /\ \A k \in 1..Len(kept) - 1 : kept[k].nr < kept[k + 1].nr

\* Three generations with one rank recorded: the second repeats the first
\* and is elided, the third improves on both and is kept as nr 2.
C18_Witness ==
    /\ under_test = "optimize" /\ evolution.processed
    /\ evolution.args.hall_of_fame_size = 1
    /\ evolution.evolved.generations = <<<<1, 1>>, <<1>>, <<2, 1>>>>
    /\ response.generations = <<[nr |-> 0, hall_of_fame |-> <<1, 1>>],
                                [nr |-> 2, hall_of_fame |-> <<2, 1>>]>>

-----------------------------------------------------------------------------
(* math.rs *)

\* C19: for all unsigned t and interval > 0, floor_multiple(t, interval) is a
\* multiple of interval and floor_multiple(t, interval) <= t <
\* floor_multiple(t, interval) + interval; floor_multiple(1, 5) = 0,
\* floor_multiple(5, 5) = 5, floor_multiple(6, 5) = 5.
C19_FloorMultiple ==
    /\ (under_test = "math" /\ math_call.fn = "floor_multiple"
            /\ math_call.multiple > 0) =>
          /\ ~math_call.panic
          /\ math_call.result % math_call.multiple = 0
          /\ math_call.result <= math_call.value
          /\ math_call.value < math_call.result + math_call.multiple
    /\ under_test = "math" =>
          /\ floor_multiple(1, 5).result = 0
          /\ floor_multiple(5, 5).result = 5
          /\ floor_multiple(6, 5).result = 5

\* floor_multiple(11, 4) = 8.
C19_Witness ==
    /\ under_test = "math" /\ math_call.fn = "floor_multiple"
    /\ math_call.value = 11 /\ math_call.multiple = 4
    /\ math_call.result = 8

\* C20: for all unsigned v and m > 0 within the bound, ceil_multiple(v, m) is
\* the smallest multiple of m that is >= v: a multiple of m with
\* v <= ceil_multiple(v, m) < v + m, equal to v when v is a multiple of m;
\* ceil_multiple(1, 5) = 5, ceil_multiple(5, 5) = 5, ceil_multiple(6, 5) = 10.
C20_CeilMultiple ==
    /\ (under_test = "math" /\ math_call.fn = "ceil_multiple"
            /\ math_call.multiple > 0) =>
          /\ ~math_call.panic
          /\ math_call.result % math_call.multiple = 0
          /\ math_call.value <= math_call.result
          /\ math_call.result < math_call.value + math_call.multiple
          /\ math_call.value % math_call.multiple = 0
                => math_call.result = math_call.value
    /\ under_test = "math" =>
          /\ ceil_multiple(1, 5).result = 5
          /\ ceil_multiple(5, 5).result = 5
          /\ ceil_multiple(6, 5).result = 10

\* ceil_multiple(8, 4) = 8, already a multiple.
C20_Witness ==
    /\ under_test = "math" /\ math_call.fn = "ceil_multiple"
    /\ math_call.value = 8 /\ math_call.multiple = 4
    /\ math_call.result = 8

-----------------------------------------------------------------------------
(* The moving-average tags *)

\* C21: each of the five tag constants of lib.rs that mamacx matches against
\* is the Adler-32 checksum of the lowercase ASCII name of its indicator
\* (EMA_ of "ema", EMA2 of "ema2", SMA_ of "sma", SMMA of "smma", DEMA of
\* "dema"), the values being 40698164, 64160102, 43450690, 72483247 and
\* 66978200, and the five are pairwise distinct; so a call that mamacx
\* accepts was given checksums of these names.
C21_TagsAreAdler32 ==
    ma_call.fn = "mamacx" =>
        /\ EMA_ = Adler32Checksum(Ascii("ema")) /\ EMA_ = 40698164
        /\ EMA2 = Adler32Checksum(Ascii("ema2")) /\ EMA2 = 64160102
        /\ SMA_ = Adler32Checksum(Ascii("sma")) /\ SMA_ = 43450690
        /\ SMMA = Adler32Checksum(Ascii("smma")) /\ SMMA = 72483247
        /\ DEMA = Adler32Checksum(Ascii("dema")) /\ DEMA = 66978200
        /\ Cardinality({EMA_, EMA2, SMA_, SMMA, DEMA}) = 5
        /\ ~ma_call.panic =>
              {ma_call.info.short_ma, ma_call.info.long_ma} \subseteq
                  {Adler32Checksum(Ascii(name)) :
                      name \in {"ema", "ema2", "sma", "smma", "dema"}}

\* mamacx was given the checksums of "smma" and "dema" and ran the test.
C21_Witness ==
    /\ ma_call.fn = "mamacx"
    /\ ma_call.info.short_ma = Adler32Checksum(Ascii("smma"))
    /\ ma_call.info.long_ma = Adler32Checksum(Ascii("dema"))
    /\ ~ma_call.panic

\* The tags of the seven names.
SevenTags == {Adler32Checksum(Ascii(name)) : name \in MaNames}

\* C22: for each of the seven tags, str_to_ma of the name ma_to_str gives is
\* the tag again; for each of the seven names, ma_to_str of the tag str_to_ma
\* gives is the name again; ma_to_str of any other tag and str_to_ma of any
\* other name panic.
C22_MaRoundTrip ==
    /\ ma_call.fn = "ma_to_str" =>
          IF ma_call.value \in SevenTags
          THEN /\ ~ma_call.panic
               /\ ma_call.str \in MaNames
               /\ ~str_to_ma(ma_call.str).panic
               /\ str_to_ma(ma_call.str).result = ma_call.value
          ELSE ma_call.panic
    /\ ma_call.fn = "str_to_ma" =>
          IF ma_call.representation \in MaNames
          THEN /\ ~ma_call.panic
               /\ ma_call.tag \in SevenTags
               /\ ~ma_to_str(ma_call.tag).panic
               /\ ma_to_str(ma_call.tag).result = ma_call.representation
          ELSE ma_call.panic

\* str_to_ma was given "ema2" and returned the checksum of "ema2".
C22_Witness ==
    /\ ma_call.fn = "str_to_ma"
    /\ ma_call.representation = "ema2"
    /\ ma_call.tag = Adler32Checksum(Ascii("ema2"))

\* The moving-average types of mamacx and the lowercase name of each.
MaTypes == {"Ema", "Ema2", "Sma", "Smma", "Dema"}

Lowercase(type) ==
    CASE type = "Ema" -> "ema"
      [] type = "Ema2" -> "ema2"
      [] type = "Sma" -> "sma"
      [] type = "Smma" -> "smma"
      [] type = "Dema" -> "dema"

\* The types a tag names: those whose lowercase name has the tag as checksum.
TypesNamedBy(tag) ==
    {type \in MaTypes : Adler32Checksum(Ascii(Lowercase(type))) = tag}

\* C30: for each of the 25 pairs of tags over {ema, ema2, sma, smma, dema}
\* mamacx runs the test with the short moving average of the type short_ma
\* names, constructed with short_period, and the long moving average of the
\* type long_ma names, constructed with long_period (never the other way
\* round); for a pair with a tag outside the five it panics and constructs no
\* strategy.
C30_MamacxDispatch ==
    ma_call.fn = "mamacx" =>
        LET short == TypesNamedBy(ma_call.info.short_ma)
            long == TypesNamedBy(ma_call.info.long_ma)
        IN  IF short # {} /\ long # {}
            THEN /\ ~ma_call.panic
                 /\ ma_call.strategy.short_ma.type \in short
                 /\ ma_call.strategy.short_ma.period = ma_call.info.short_period
                 /\ ma_call.strategy.long_ma.type \in long
                 /\ ma_call.strategy.long_ma.period = ma_call.info.long_period
            ELSE /\ ma_call.panic
                 /\ ma_call.strategy = NoMAMACX

\* mamacx ran the test with a Smma(1) as short and an Ema(2) as long average.
C30_Witness ==
    /\ ma_call.fn = "mamacx"
    /\ ~ma_call.panic
    /\ ma_call.info.short_ma = Adler32Checksum(Ascii("smma"))
    /\ ma_call.info.long_ma = Adler32Checksum(Ascii("ema"))
    /\ ma_call.info.short_period = 1
    /\ ma_call.info.long_period = 2
    /\ ma_call.strategy.short_ma = [type |-> "Smma", period |-> 1]

-----------------------------------------------------------------------------
(* The backtest route *)

\* The store fails a lookup made while backtesting a requested symbol.
StoreFails ==
    \E k \in 1..Len(backtesting.bytes.symbols) :
        LET symbol == backtesting.bytes.symbols[k]
        IN  \/ ~backtesting.store.candles[symbol]
            \/ ~backtesting.store.exchange_info

\* C23: when the candle store or the exchange-info lookup fails while a
\* requested symbol is backtested, the handler returns an error result: it
\* does not panic and it replies with no symbol_stats.
C23_StoreFailurePropagated ==
    (backtesting.processed /\ backtesting.bytes.json /\ StoreFails) =>
        /\ backtesting.outcome = "err"
        /\ backtesting.symbol_stats = {}

-----------------------------------------------------------------------------
(* MidTrend(Ignore) and the first advice *)

\* The calls given the first Long, Short or Liquidate: every input before is
\* None.
FirstAdviceCalls ==
    {j \in 1..Len(inputs) :
        inputs[j] # "None" /\ \A k \in 1..j - 1 : inputs[k] = "None"}

\* C24, as stated: MidTrend(Ignore) returns None from the call that is fed the
\* first Long, Short or Liquidate, also when None inputs came before it.
C24_FirstAdviceSuppressed ==
    (under_test = "mid_trend" /\ mid_trend.policy = "Ignore") =>
        \A j \in FirstAdviceCalls : outputs[j] = "None"

\* C24, amended: MidTrend(Ignore), in both versions, returns None from the
\* first update call, whatever it is fed; when that first input was None, the
\* call that is fed the first Long, Short or Liquidate returns it.
C24_FirstCallSuppressed ==
    (under_test = "mid_trend" /\ mid_trend.policy = "Ignore") =>
        /\ Len(outputs) >= 1 => outputs[1] = "None" /\ old_outputs[1] = "None"
        /\ \A j \in FirstAdviceCalls :
              j > 1 => outputs[j] = inputs[j] /\ old_outputs[j] = inputs[j]

\* Fed None, None, Long, the third call returned Long.
C24_Witness ==
    /\ under_test = "mid_trend"
    /\ mid_trend.policy = "Ignore"
    /\ inputs = <<"None", "None", "Long">>
    /\ outputs = <<"None", "None", "Long">>

-----------------------------------------------------------------------------
(* SigOsc's oscillator filter *)

\* C25: SigOsc's filter returns None and Liquidate unchanged in both modes;
\* in enforce mode it returns Long only while the oscillator is oversold and
\* Short only while it is overbought; in prevent mode it never returns Long
\* while the oscillator is overbought nor Short while it is oversold; a Long or
\* Short that passes is returned unchanged and one that fails becomes
\* Liquidate, never None.
C25_OscFilter ==
    (under_test = "strategy" /\ filtered.called) =>
        LET a == filtered.advice
            r == filtered.result
            enforce == filtered.osc_filter = OSC_FILTER_ENFORCE
            prevent == filtered.osc_filter = OSC_FILTER_PREVENT
            passes ==
                \/ enforce /\ a = "Long" /\ filtered.oversold
                \/ enforce /\ a = "Short" /\ filtered.overbought
                \/ prevent /\ a = "Long" /\ ~filtered.overbought
                \/ prevent /\ a = "Short" /\ ~filtered.oversold
        IN  /\ enforce \/ prevent
            /\ a \in {"None", "Liquidate"} => r = a
            /\ enforce /\ r = "Long" => filtered.oversold
            /\ enforce /\ r = "Short" => filtered.overbought
            /\ prevent /\ r = "Long" => ~filtered.overbought
            /\ prevent /\ r = "Short" => ~filtered.oversold
            /\ a \in {"Long", "Short"} => r = IF passes THEN a ELSE "Liquidate"

\* In prevent mode a Short was vetoed while the oscillator was oversold and
\* not overbought.
C25_Witness ==
    /\ under_test = "strategy"
    /\ filtered.called
    /\ filtered.osc_filter = OSC_FILTER_PREVENT
    /\ filtered.advice = "Short"
    /\ filtered.oversold /\ ~filtered.overbought
    /\ filtered.result = "Liquidate"

-----------------------------------------------------------------------------
(* Gene indexing *)

\* The gene index i (from 0) addresses in declaration order: the struct
\* holding it ("self" for a gene of the chromosome itself) and its field.
GeneAddress(type, i) ==
    IF type = "Individual"
    THEN IF i < Len(Fields("TraderParams"))
         THEN <<"trader", Fields("TraderParams")[i + 1]>>
         ELSE <<"strategy", Fields("S")[i - Len(Fields("TraderParams")) + 1]>>
    ELSE IF i < Len(Fields("S"))
         THEN <<"sig", Fields("S")[i + 1]>>
         ELSE IF i < Len(Fields("S")) + Len(Fields("O"))
              THEN <<"osc", Fields("O")[i - Len(Fields("S")) + 1]>>
              ELSE <<"self", <<"osc_filter", "persistence", "mid_trend_policy">>
                                [i - Len(Fields("S")) - Len(Fields("O")) + 1]>>

\* Every gene of a chromosome type.
GeneAddresses(type) ==
    LET of(part, name) == {<<part, Fields(name)[k]>> : k \in 1..Len(Fields(name))}
    IN  IF type = "Individual"
        THEN of("trader", "TraderParams") \cup of("strategy", "S")
        ELSE of("sig", "S") \cup of("osc", "O")
                \cup {<<"self", "osc_filter">>, <<"self", "persistence">>,
                      <<"self", "mid_trend_policy">>}

GeneAt(v, address) ==
    IF address[1] = "self" THEN v[address[2]] ELSE v[address[1]][address[2]]

\* C26: for Individual<T> the indices below TraderParams::len() address the
\* trader genes and the others the strategy gene i - TraderParams::len(); for
\* SigOscParams<S, O> the indices address the sig genes, the osc genes, then
\* osc_filter, persistence and mid_trend_policy; every index below len()
\* addresses one gene, different indices address different genes and every
\* gene has an index; cross and mutate called with an index touch the gene
\* it addresses and no other.
C26_GeneIndexing ==
    ((InRange("cross") \/ InRange("mutate"))
            /\ ctype \in {"Individual", "SigOscParams"}) =>
        LET indices == 0..Chromosome_len(ctype) - 1
            address == GeneAddress(ctype, chrom_call.i)
        IN  /\ {GeneAddress(ctype, k) : k \in indices} = GeneAddresses(ctype)
            /\ \A k \in indices, l \in indices :
                  GeneAddress(ctype, k) = GeneAddress(ctype, l) => k = l
            /\ ~chrom_call.panic
            /\ \A other \in GeneAddresses(ctype) \ {address} :
                  GeneAt(chrom, other) = GeneAt(chrom_call.self, other)
            /\ chrom_call.op = "cross" =>
                  GeneAt(chrom, address) = GeneAt(chrom_call.parent, address)
            /\ chrom_call.op = "mutate" =>
                  GeneAt(chrom, address) =
                      GeneDraws(ctype, chrom_call.r)[chrom_call.i + 1]

\* mutate(4) on an Individual re-drew the first strategy gene.
C26_Witness ==
    /\ InRange("mutate")
    /\ ctype = "Individual"
    /\ chrom_call.i = 4
    /\ chrom.strategy.s0 # chrom_call.self.strategy.s0
    /\ chrom.trader = chrom_call.self.trader

-----------------------------------------------------------------------------
(* The genetic algorithm *)

\* The best fitness in a population that is not empty.
BestFitness(evaluation, population) ==
    CHOOSE f \in {evaluation[population[k]] : k \in 1..Len(population)} :
        \A k \in 1..Len(population) : f >= evaluation[population[k]]

\* C27: the best individuals of a generation are carried into the next one,
\* so the best fitness in the population does not decrease from one
\* generation to the next (here: over a generation step in which selection
\* returned all the parents it was asked for).
C27_EliteKept ==
    [][(/\ under_test = "evolve"
        /\ ga.pc = "loop" /\ ga'.pc = "loop" /\ ga'.i = ga.i + 1
        /\ ga'.selected_all
        /\ Len(ga.population) > 0)
       => BestFitness(ga.evaluation, ga'.population)
              >= BestFitness(ga.evaluation, ga.population)]_vars

\* C28: after the last generation evolve reports the individual with the
\* highest fitness of the final population: the reported fitness is that of
\* the reported individual and is at least the fitness of every individual of
\* the population.
C28_ReportsHighestFitness ==
    (under_test = "evolve" /\ ga.pc = "done") =>
        /\ ga.best.f = ga.evaluation[ga.population[ga.best.i + 1]]
        /\ \A k \in 1..Len(ga.population) :
              ga.best.f >= ga.evaluation[ga.population[k]]

\* C29: an odd population size makes evolve panic before any individual is
\* generated; with an even size N, as long as selection returns the parents
\* it is asked for, no generation panics and the population has N individuals
\* after every generation and when the best one is reported.
C29_PopulationSize ==
    under_test = "evolve" =>
        /\ ga.population_size % 2 = 1 =>
              /\ ga.pc \in {"start", "panicked"}
              /\ ga.generated = 0
              /\ ga.population = << >>
        /\ (ga.population_size % 2 = 0 /\ ga.selected_all) =>
              /\ ga.pc # "panicked"
              /\ ga.pc \in {"loop", "done"} =>
                    /\ Len(ga.population) = ga.population_size
                    /\ ga.generated = ga.population_size

\* Four individuals after two generations whose offspring are not the
\* individuals generated at the start.
C29_Witness ==
    /\ under_test = "evolve"
    /\ ga.population_size = 4
    /\ ga.pc = "done"
    /\ ga.i = 2
    /\ ga.selected_all
    /\ ga.population = <<1, 2, 2, 1>>

\* C36: on every update the older MidTrend (boolean flag) and the newer one
\* (policy) return the same value, for every input sequence, with
\* ignore = TRUE paired with Ignore and ignore = FALSE with Current or
\* Previous.
C36_MidTrendsAgree ==
    under_test = "mid_trend" =>
        /\ old_mid_trend.ignore \in BOOLEAN
        /\ Len(old_outputs) = Len(outputs)
        /\ \A k \in 1..Len(outputs) : old_outputs[k] = outputs[k]

\* Both have been driven through a change of advice, under a policy that
\* starts by ignoring.
C36_Witness ==
    /\ under_test = "mid_trend"
    /\ mid_trend.policy = "Ignore"
    /\ Len(inputs) >= 3
    /\ inputs[1] # inputs[2]
    /\ inputs[3] = inputs[1]
    /\ old_outputs = outputs

\* No two updates in a row returned the same advice other than None.
NoRepeat(results) ==
    \A k \in 1..(Len(results) - 1) :
        results[k] = "None" \/ results[k + 1] # results[k]

\* C38: an enabled Changed, older or newer, never returns the same non-None
\* advice from two consecutive updates; a disabled one returns every input
\* as it was given.
C38_ChangedNeverRepeats ==
    under_test = "changed" =>
        IF changed.enabled
        THEN NoRepeat(outputs) /\ NoRepeat(old_outputs)
        ELSE outputs = inputs /\ old_outputs = inputs

\* An enabled Changed was given the same advice twice in a row, after
\* having returned it the first time.
C38_Witness ==
    /\ under_test = "changed"
    /\ changed.enabled
    /\ old_changed.enabled
    /\ Len(inputs) >= 2
    /\ inputs[1] = "Long" /\ inputs[2] = "Long"
    /\ outputs[1] = "Long" /\ outputs[2] = "None"
    /\ old_outputs[1] = "Long" /\ old_outputs[2] = "None"

-----------------------------------------------------------------------------
(* Stop-losses side by side *)

\* C35: after clear(c0) and any number of update calls, whenever
\* BasicStopLoss.upside_hit() is true TrailingStopLoss.upside_hit() is true,
\* and whenever BasicStopLoss.downside_hit() is true
\* TrailingStopLoss.downside_hit() is true, both having the same threshold
\* and having been given the same calls.
C35_TrailingNeverLooser ==
    (under_test = "stop_loss" /\ stop_loss_calls.cleared) =>
        /\ basic.threshold = trailing.threshold
        /\ BasicStopLoss_upside_hit(basic) => TrailingStopLoss_upside_hit(trailing)
        /\ BasicStopLoss_downside_hit(basic) => TrailingStopLoss_downside_hit(trailing)
        /\ \A j \in 1..Len(stop_loss_calls.hits) :
              /\ stop_loss_calls.hits[j].upside
                    => stop_loss_calls.trailing_hits[j].upside
              /\ stop_loss_calls.hits[j].downside
                    => stop_loss_calls.trailing_hits[j].downside

\* After a clear and two updates the basic stop-loss reports an upside hit,
\* the close having risen above the entry in between.
C35_Witness ==
    /\ under_test = "stop_loss"
    /\ stop_loss_calls.cleared
    /\ Len(stop_loss_calls.closes) = 2
    /\ stop_loss_calls.closes[1] > stop_loss_calls.entry
    /\ BasicStopLoss_upside_hit(basic)
    /\ TrailingStopLoss_upside_hit(trailing)
    /\ trailing.highest_close_since_position > basic.close_at_position

\* C37: as long as clear has never been called, freshly constructed or
\* after any number of updates with positive closes, upside_hit() and
\* downside_hit() are false for BasicStopLoss and for TrailingStopLoss.
C37_UnarmedReportsNoHit ==
    (under_test = "stop_loss" /\ ~stop_loss_calls.cleared) =>
        /\ ~BasicStopLoss_upside_hit(basic)
        /\ ~BasicStopLoss_downside_hit(basic)
        /\ ~TrailingStopLoss_upside_hit(trailing)
        /\ ~TrailingStopLoss_downside_hit(trailing)

-----------------------------------------------------------------------------
(* Sig and SigOsc: the maturity subtraction, and the combined advice *)

\* C33: the maturity computation of Sig::new and SigOsc::new never underflows:
\* for every generated parameter set and every constituent maturity >= 0 the
\* sum constituent maturity + max(mid_trend.maturity, persistence.maturity)
\* is at least 1, construction does not panic, and t1 is that sum minus 1.
C33_MaturityNeverUnderflows ==
    under_test = "strategy" =>
        /\ MaturitySum(params) >= 1
        /\ strategy # Panicked
        /\ strategy.t1 = U32(MaturitySum(params) - 1)

\* The advice given to both filters by the latest update: the inner signal's
\* advice in a Sig, the oscillator-filtered advice in a SigOsc.
FedToFilters ==
    IF params.kind = "Sig" THEN Signal_advice(strategy.sig) ELSE filtered.result

\* The latest update was made with the constituents mature.
UpdatedWhileMature ==
    /\ Constructed
    /\ updates > 0
    /\ IF params.kind = "Sig" THEN Signal_mature(strategy.sig) ELSE filtered.called

\* C34: after every update made while the constituent is mature, the advice
\* of a Sig or a SigOsc is None or exactly the advice given to both filters
\* on that update: combining the mid-trend and the persistence outputs never
\* makes a Liquidate out of a disagreement.
C34_NoLiquidateFromDisagreement ==
    UpdatedWhileMature => strategy.advice \in {"None", FedToFilters}

\* A Sig with a persistence level and the Ignore policy has passed a Long on;
\* both filters had withheld it on an earlier update.
C34_Witness ==
    /\ UpdatedWhileMature
    /\ params.kind = "Sig"
    /\ params.persistence >= 1
    /\ params.mid_trend_policy = "Ignore"
    /\ ~strategy.mid_trend.enabled
    /\ FedToFilters = "Long"
    /\ strategy.advice = "Long"

-----------------------------------------------------------------------------
(* Alma *)

\* The sum of window[i + 1] * weights[i + 1] for the weight indices i = from
\* .. p - 1: the oldest price of the window with weight index 0, the newest
\* with weight index p - 1.
RECURSIVE WeightedSum(_, _, _, _)
WeightedSum(window, weights, from, p) ==
    IF from > p - 1 THEN 0
    ELSE window[from + 1] * weights[from + 1]
            + WeightedSum(window, weights, from + 1, p)

\* C31: for Alma(period = p >= 1), after n updates the price window holds
\* at most p prices and exactly the most recent min(n, p) of them in arrival
\* order; value is its initial 0 during the first p - 1 updates and after
\* every later update is the weighted sum over exactly p prices, the oldest
\* with weight index 0 and the newest with weight index p - 1.
C31_AlmaWindow ==
    under_test = "alma" =>
        LET n == Len(alma_fed)
            p == Alma_maturity(alma) + 1
        IN  /\ Len(alma.prices) <= p
            /\ Len(alma.prices) = Min(n, p)
            /\ alma.prices = SubSeq(alma_fed, n - Min(n, p) + 1, n)
            /\ Len(alma.weights) = p
            /\ n < p => alma.value = 0
            /\ n >= p =>
                  alma.value = WeightedSum(SubSeq(alma_fed, n - p + 1, n),
                                           alma.weights, 0, p)

\* An Alma of period 2 has dropped prices from its window, and its value is
\* that of the window 5, 1, which differs from that of 1, 5.
C31_Witness ==
    /\ under_test = "alma"
    /\ Alma_maturity(alma) = 1
    /\ Len(alma_fed) = 4
    /\ alma.prices = <<5, 1>>
    /\ alma.value = 5 * 531 + 1 * 469
    /\ alma.value # 1 * 531 + 5 * 469

-----------------------------------------------------------------------------
(* Gene values under sequences of operations *)

\* Neither SigOsc::filter nor serialize_osc_filter panics on the osc_filter
\* of the parameters p.
OscFilterAccepted(p) ==
    /\ serialize_osc_filter(p.osc_filter) # "panic"
    /\ \A advice \in Advice :
          SigOsc_filter([osc_filter |-> p.osc_filter, osc |-> Oscillator_new(0)],
                        advice) # "panic"

\* C32: every SigOscParams reached from generated ones by any sequence of
\* cross and mutate calls has osc_filter 0 (enforce) or 1 (prevent), so
\* SigOsc::filter and serialize_osc_filter do not panic on it.
C32_OscFilterInDomain ==
    under_test = "gene_ops" =>
        \A p \in {chrom, partner} :
            /\ p.osc_filter \in {OSC_FILTER_ENFORCE, OSC_FILTER_PREVENT}
            /\ OscFilterAccepted(p)

\* After a cross the two parameter sets have different filters, both of
\* which serialize.
C32_Witness ==
    /\ under_test = "gene_ops"
    /\ chrom_call.op = "cross"
    /\ serialize_osc_filter(chrom.osc_filter) = "prevent"
    /\ serialize_osc_filter(partner.osc_filter) = "enforce"
    /\ chrom.persistence # partner.persistence

====
